---------------------------- MODULE Spec2Model ----------------------------
(***************************************************************************)
(* Classic-C-Problems: the synchronisation protocols of the repository as  *)
(* state machines.                                                         *)
(*                                                                         *)
(*   pq_*   the print queue (bounded buffer), print_system_monitor.c,      *)
(*          print_system_mutex.c and print_system_sem.c; pq_impl says      *)
(*          which of the three runs.                                       *)
(*   vs_*   the video studio (dining philosophers), video_studio_monitor.c *)
(*          and video_studio_mutex.c; vs_impl says which of the two runs.  *)
(*   vss_*  the video studio on semaphores, video_studio_sem.c.            *)
(*   rw_*   the product catalog (readers and writers), ecommerce_monitor.c,*)
(*          ecommerce_mutex.c and ecommerce_sem.c; rw_impl says which of   *)
(*          the three runs.                                                *)
(*                                                                         *)
(* Every thread is a process with a program counter.  Taking a mutex is a  *)
(* step of its own; the critical section that follows runs as one step up  *)
(* to the pthread_cond_wait or pthread_mutex_unlock that ends it.  A       *)
(* condition variable is the set of threads waiting on it; a signalled     *)
(* thread has to take the mutex again and then evaluates the condition of  *)
(* its while loop again.  POSIX allows pthread_cond_wait to return without *)
(* a signal, which is an action of its own.                                *)
(***************************************************************************)
EXTENDS Integers, Sequences, FiniteSets, TLC

(***************************************************************************)
(* Print queue: sizes.  The sources set BUFFER_SIZE 5, MAX_DOCUMENTS 10 and *)
(* NUM_PRODUCERS 3; the model runs the same code on a smaller queue with   *)
(* fewer documents and producers.  MAX_DOCUMENTS stays above BUFFER_SIZE,  *)
(* as in the sources, so that one producer alone can fill the queue.       *)
(***************************************************************************)
BUFFER_SIZE == 2

MAX_DOCUMENTS == 3

NUM_PRODUCERS == 2

NUM_CONSUMERS == 2

\* Thread ids of the print queue: producer_ids[i] = i + 1, and the consumers
\* after them (consumer_ids[i] = i + 1 in the source, shifted here so that one
\* function holds every thread's program counter).
Producers == 1..NUM_PRODUCERS

Consumers == (NUM_PRODUCERS + 1)..(NUM_PRODUCERS + NUM_CONSUMERS)

PQThreads == Producers \cup Consumers

\* The value of pq_mutex when no thread holds it.
Free == 0

\* The consumer's local Document while it holds no document to print.
NoDoc == -1

VARIABLES
    pq_impl,            \* "monitor" | "mutex" | "sem": which source file runs
    buffer,             \* print_queue.buffer: slot -> document id
    count,              \* print_queue.count
    in,                 \* print_queue.in
    out,                \* print_queue.out
    active_producers,   \* print_queue.active_producers
    should_stop,        \* print_queue.should_stop
    pq_mutex,           \* print_queue.mutex: Free or the thread holding it
    not_full,           \* threads blocked in pthread_cond_wait(&not_full)
    not_empty,          \* threads blocked in pthread_cond_wait(&not_empty)
    pq_pc,              \* thread -> program counter
    docs_produced,      \* producer -> its local docs_produced
    doc,                \* consumer -> its local doc (a document id)
    main_pc,            \* main: "create" | "join" | "failed" | "exited" | "finished"
    created,            \* number of threads main has created so far
    pending,            \* history: documents inserted and not yet removed, in insert order
    inserted,           \* history: every document id stored by an insert
    returned            \* history: every document id handed to a consumer

pqvars == <<pq_impl, buffer, count, in, out, active_producers, should_stop,
            pq_mutex, not_full, not_empty, pq_pc, docs_produced, doc,
            main_pc, created, pending, inserted, returned>>

(***************************************************************************)
(* Video studio: sizes.  The sources set NUM_EDITS 3; the model runs fewer *)
(* rounds per editor.                                                      *)
(***************************************************************************)
NUM_EDITORS == 5

NUM_BOARDS == 5

NUM_EDITS == 1

\* editor_ids[i] = i
Editors == 0..(NUM_EDITORS - 1)

Boards == 0..(NUM_BOARDS - 1)

\* The value of vs_mutex when no editor holds it (editor ids start at 0).
NoEditor == -1

VARIABLES
    vs_impl,            \* "monitor" | "mutex": which source file runs
    vs_state,           \* studio.state: editor -> "THINKING" | "HUNGRY" | "EDITING"
    board_in_use,       \* studio.board_in_use (monitor), studio.has_board (mutex)
    vs_mutex,           \* studio.mutex: NoEditor or the editor holding it
    vs_pc,              \* editor -> program counter
    edits               \* editor -> the i of its for loop

vsvars == <<vs_impl, vs_state, board_in_use, vs_mutex, vs_pc, edits>>

VARIABLES
    vss_state,          \* studio.state of video_studio_sem.c
    sem_editors,        \* studio.sem_editors: editor -> semaphore value
    vss_mutex,          \* studio.mutex of video_studio_sem.c: semaphore value
    boards,             \* studio.boards: board -> semaphore value
    vss_pc,             \* editor -> program counter
    vss_edits           \* editor -> the i of its for loop

vssvars == <<vss_state, sem_editors, vss_mutex, boards, vss_pc, vss_edits>>

\* print_system_sem.c keeps buffer, in, out and should_stop as globals and
\* guards them with semaphores; on top of the print queue variables above:
VARIABLES
    empty,              \* semaphore empty: its value
    full,               \* semaphore full: its value
    posted              \* main: the i of the loop that posts full for the consumers

psvars == <<empty, full, posted>>

(***************************************************************************)
(* Product catalog: sizes.  The sources set NUM_READS 5 and NUM_WRITES 3;  *)
(* the model runs fewer rounds per thread.                                 *)
(***************************************************************************)
NUM_READERS == 5

NUM_WRITERS == 2

NUM_READS == 1

NUM_WRITES == 1

\* Thread ids of the catalog: reader_ids[i] = i + 1, and the writers after
\* them (writer_ids[i] = i + 1 in the source, shifted here so that one
\* function holds every thread's program counter).
Readers == 1..NUM_READERS

Writers == (NUM_READERS + 1)..(NUM_READERS + NUM_WRITERS)

RWThreads == Readers \cup Writers

VARIABLES
    rw_impl,            \* "monitor" | "mutex" | "sem": which source file runs
    num_readers,        \* catalog.num_readers
    num_writers,        \* catalog.num_writers (monitor)
    writer_waiting,     \* catalog.writer_waiting (monitor)
    rw_mutex,           \* catalog.mutex (monitor, mutex), catalog.read_mutex (sem):
                        \* Free or the thread holding it
    write_mutex,        \* catalog.write_mutex (mutex, sem): Free or the thread
                        \* that locked it
    can_read,           \* threads blocked in pthread_cond_wait(&can_read)
    can_write,          \* threads blocked in pthread_cond_wait(&can_write)
    rw_pc,              \* thread -> program counter
    rw_i,               \* thread -> the i of its for loop
    products,           \* catalog.products: index -> [id, price, stock], the
                        \* price in hundredths
    rw_draws            \* the <<product_id, price_change, stock_change>> that
                        \* rand() can hand to a writer in this run

rwvars == <<rw_impl, num_readers, num_writers, writer_waiting, rw_mutex,
            write_mutex, can_read, can_write, rw_pc, rw_i, products, rw_draws>>

\* init_print_queue (print_system_mutex.c) and init_semaphores
\* (print_system_sem.c), which main calls first:
VARIABLES
    init_pc,            \* "none" | "run" | "returned" | "over": where the call is
    init_k,             \* the primitive the function initialises next, from 1
    init_fail,          \* the primitive whose initialisation fails, 0 for none
    init_ret,           \* the value the function returned
    initialised         \* the primitives that are initialised and not destroyed

invars == <<init_pc, init_k, init_fail, init_ret, initialised>>

vars == <<pqvars, vsvars, vssvars, psvars, rwvars, invars>>

\* What no step of the print queue changes: the source file chosen at the
\* start and the variables of the other programs.
pqrest == <<pq_impl, vsvars, vssvars, psvars, rwvars, invars>>

\* What no step of the video studio changes.
vsrest == <<vs_impl, pqvars, vssvars, psvars, rwvars, invars>>

\* What no step of the semaphore video studio changes.
vssrest == <<pqvars, vsvars, psvars, rwvars, invars>>

\* What no step of the catalog changes.
rwrest == <<rw_impl, rw_draws, pqvars, vsvars, vssvars, psvars, invars>>

\* doc.id = (producer_id * MAX_DOCUMENTS) + docs_produced
DocId(p, n) == (p * MAX_DOCUMENTS) + n

\* A thread runs once main has created it and until the process exits.
Running(t) == t <= created /\ main_pc # "exited"

\* pthread_cond_wait returns with the mutex held: the woken thread first takes
\* the mutex again, then evaluates its while condition again.
WakePc(t) == IF t \in Producers THEN "ins_lock" ELSE "rm_lock"

\* pthread_cond_signal on waiter set cv: w is the thread it wakes, or Free
\* when nobody waits.
Signalled(cv, w) == IF cv = {} THEN w = Free ELSE w \in cv

\* The program counters after thread t moved to pc `to` and thread set ws was woken.
PcAfter(t, to, ws) ==
    [x \in PQThreads |-> IF x = t THEN to
                         ELSE IF x \in ws THEN WakePc(x)
                         ELSE pq_pc[x]]

pqshared == <<buffer, count, in, out, active_producers, should_stop>>

pqhistory == <<pending, inserted, returned>>

pqmain == <<main_pc, created, pqrest>>

----------------------------------------------------------------------------
(***************************************************************************)
(* Print queue, state after construction.                                  *)
(***************************************************************************)
\* monitor_init (monitor) and the initialiser of print_queue (mutex):
\* active_producers starts at NUM_PRODUCERS in the monitor and at 0 in the
\* mutex version, where each producer registers itself.
PQInitFor(impl) ==
    /\ pq_impl = impl
    /\ buffer = [i \in 0..(BUFFER_SIZE - 1) |-> 0]
    /\ count = 0
    /\ in = 0
    /\ out = 0
    /\ active_producers = (IF impl = "monitor" THEN NUM_PRODUCERS ELSE 0)
    /\ should_stop = 0
    /\ pq_mutex = Free
    /\ not_full = {}
    /\ not_empty = {}
    /\ pq_pc = [t \in PQThreads |->
                  IF t \in Producers
                  THEN (IF impl = "monitor" THEN "p_loop" ELSE "reg_lock")
                  ELSE "c_loop"]
    /\ docs_produced = [p \in Producers |-> 0]
    /\ doc = [c \in Consumers |-> NoDoc]
    /\ main_pc = "create"
    /\ created = 0
    /\ pending = <<>>
    /\ inserted = {}
    /\ returned = {}

----------------------------------------------------------------------------
(***************************************************************************)
(* main of both print queues: creates the producers, then the consumers;   *)
(* a failing pthread_create sets should_stop and returns from main, which  *)
(* ends the process.                                                       *)
(***************************************************************************)
MainCreate ==
    /\ main_pc = "create"
    /\ created < NUM_PRODUCERS + NUM_CONSUMERS
    /\ created' = created + 1
    /\ main_pc' = (IF created + 1 = NUM_PRODUCERS + NUM_CONSUMERS
                   THEN "join" ELSE "create")
    /\ UNCHANGED <<pqrest, pqshared, pq_mutex, not_full, not_empty, pq_pc,
                   docs_produced, doc, pqhistory>>

MainCreateFail ==
    /\ main_pc = "create"
    /\ created < NUM_PRODUCERS + NUM_CONSUMERS
    /\ should_stop' = 1
    /\ main_pc' = "failed"
    /\ UNCHANGED <<pqrest, buffer, count, in, out, active_producers, created,
                   pq_mutex, not_full, not_empty, pq_pc, docs_produced, doc,
                   pqhistory>>

\* return 1 / return EXIT_FAILURE from main: the process ends, its threads with it.
MainExit ==
    /\ main_pc = "failed"
    /\ main_pc' = "exited"
    /\ UNCHANGED <<pqrest, pqshared, created, pq_mutex, not_full, not_empty,
                   pq_pc, docs_produced, doc, pqhistory>>

\* The pthread_join loops return once every thread has returned.
MainJoin ==
    /\ main_pc = "join"
    /\ \A t \in PQThreads : pq_pc[t] = "done"
    /\ main_pc' = "finished"
    /\ UNCHANGED <<pqrest, pqshared, created, pq_mutex, not_full, not_empty,
                   pq_pc, docs_produced, doc, pqhistory>>

\* pthread_mutex_lock(&print_queue.mutex) by thread t at pc `from`.
PQLock(t, from, to) ==
    /\ Running(t)
    /\ pq_pc[t] = from
    /\ pq_mutex = Free
    /\ pq_mutex' = t
    /\ pq_pc' = [pq_pc EXCEPT ![t] = to]
    /\ UNCHANGED <<pqshared, not_full, not_empty, docs_produced, doc,
                   pqhistory, pqmain>>

\* pthread_cond_wait returning without a signal (POSIX allows it).
PQSpuriousWakeup(t) ==
    /\ Running(t)
    /\ t \in not_full \cup not_empty
    /\ not_full' = not_full \ {t}
    /\ not_empty' = not_empty \ {t}
    /\ pq_pc' = [pq_pc EXCEPT ![t] = WakePc(t)]
    /\ UNCHANGED <<pqshared, pq_mutex, docs_produced, doc, pqhistory, pqmain>>


----------------------------------------------------------------------------
(***************************************************************************)
(* print_system_monitor.c                                                  *)
(***************************************************************************)
\* producer, the loop test: docs_produced < MAX_DOCUMENTS && !should_stop
\* (should_stop is read without the mutex).
MonProducerLoop(p) ==
    /\ pq_impl = "monitor"
    /\ Running(p)
    /\ pq_pc[p] = "p_loop"
    /\ pq_pc' = [pq_pc EXCEPT ![p] =
                    IF docs_produced[p] < MAX_DOCUMENTS /\ should_stop = 0
                    THEN "ins_lock" ELSE "fin_lock"]
    /\ UNCHANGED <<pqshared, pq_mutex, not_full, not_empty, docs_produced, doc,
                   pqhistory, pqmain>>

\* monitor_insert, pthread_mutex_lock.
MonInsertLock(p) == pq_impl = "monitor" /\ PQLock(p, "ins_lock", "ins_cs")

\* monitor_insert never waiting: its loop condition without the test for a full buffer.
MonInsertMustWait_NoFullTest == FALSE

\* monitor_insert, the condition of its while loop.
MonInsertMustWait == count = BUFFER_SIZE /\ should_stop = 0

\* monitor_insert storing a document without advancing in.
MonInsertStore_NoInAdvance(d) ==
    /\ buffer' = [buffer EXCEPT ![in] = d]
    /\ in' = in
    /\ count' = count + 1
    /\ pending' = Append(pending, d)
    /\ inserted' = inserted \cup {d}

\* monitor_insert, the store: buffer[in] = doc; in = (in + 1) % BUFFER_SIZE;
\* count++; the histories record the insert.
MonInsertStore(d) ==
    /\ buffer' = [buffer EXCEPT ![in] = d]
    /\ in' = (in + 1) % BUFFER_SIZE
    /\ count' = count + 1
    /\ pending' = Append(pending, d)
    /\ inserted' = inserted \cup {d}

\* monitor_insert with the mutex held, up to the wait or the unlock, and back
\* in producer: docs_produced++ follows every return of monitor_insert.
MonInsert(p) ==
    /\ pq_impl = "monitor"
    /\ Running(p)
    /\ pq_pc[p] = "ins_cs"
    /\ pq_mutex = p
    /\ pq_mutex' = Free
    /\ IF MonInsertMustWait
       THEN /\ not_full' = not_full \cup {p}
            /\ pq_pc' = [pq_pc EXCEPT ![p] = "ins_wait"]
            /\ UNCHANGED <<pqshared, not_empty, docs_produced, pqhistory>>
       ELSE IF should_stop = 1
       THEN /\ docs_produced' = [docs_produced EXCEPT ![p] = @ + 1]
            /\ pq_pc' = [pq_pc EXCEPT ![p] = "p_loop"]
            /\ UNCHANGED <<pqshared, not_full, not_empty, pqhistory>>
       ELSE /\ MonInsertStore(DocId(p, docs_produced[p]))
            /\ \E w \in not_empty \cup {Free} :
                 /\ Signalled(not_empty, w)
                 /\ not_empty' = not_empty \ {w}
                 /\ pq_pc' = PcAfter(p, "p_loop", {w})
            /\ docs_produced' = [docs_produced EXCEPT ![p] = @ + 1]
            /\ UNCHANGED <<out, active_producers, should_stop, not_full, returned>>
    /\ UNCHANGED <<doc, pqmain>>

\* producer, after its loop: pthread_mutex_lock.
MonProducerFinLock(p) == pq_impl = "monitor" /\ PQLock(p, "fin_lock", "fin_cs")

\* The end of a producer without the broadcast of not_empty.
MonProducerFin_NoBroadcast(p) ==
    /\ pq_impl = "monitor"
    /\ Running(p)
    /\ pq_pc[p] = "fin_cs"
    /\ pq_mutex = p
    /\ active_producers' = active_producers - 1
    /\ pq_pc' = [pq_pc EXCEPT ![p] = "done"]
    /\ pq_mutex' = Free
    /\ UNCHANGED <<buffer, count, in, out, should_stop, not_full, not_empty,
                   docs_produced, doc, pqhistory, pqmain>>

\* producer, after its loop: active_producers--; broadcast not_empty; unlock.
MonProducerFin(p) ==
    /\ pq_impl = "monitor"
    /\ Running(p)
    /\ pq_pc[p] = "fin_cs"
    /\ pq_mutex = p
    /\ active_producers' = active_producers - 1
    /\ not_empty' = {}
    /\ pq_pc' = PcAfter(p, "done", not_empty)
    /\ pq_mutex' = Free
    /\ UNCHANGED <<buffer, count, in, out, should_stop, not_full,
                   docs_produced, doc, pqhistory, pqmain>>

\* consumer, the loop test: !should_stop || count > 0 (read without the mutex).
\* The document of the round before has been printed and is not read again:
\* the local is cleared so that states differing only in it are one state.
MonConsumerLoop(c) ==
    /\ pq_impl = "monitor"
    /\ Running(c)
    /\ pq_pc[c] = "c_loop"
    /\ pq_pc' = [pq_pc EXCEPT ![c] =
                    IF should_stop = 0 \/ count > 0 THEN "rm_lock" ELSE "done"]
    /\ doc' = [doc EXCEPT ![c] = NoDoc]
    /\ UNCHANGED <<pqshared, pq_mutex, not_full, not_empty, docs_produced,
                   pqhistory, pqmain>>

\* monitor_remove, pthread_mutex_lock.
MonRemoveLock(c) == pq_impl = "monitor" /\ PQLock(c, "rm_lock", "rm_cs")

\* monitor_remove, the condition of its while loop.
MonRemoveEmpty == count = 0 /\ should_stop = 0

\* monitor_remove giving up on should_stop alone, documents left or not.
MonRemoveStopped_NoCountTest == should_stop = 1

\* monitor_remove, the test after the loop: should_stop && count == 0.
MonRemoveStopped == should_stop = 1 /\ count = 0

\* monitor_remove taking a document without advancing out.
MonRemoveTake_NoOutAdvance(c) ==
    /\ doc' = [doc EXCEPT ![c] = buffer[out]]
    /\ out' = out
    /\ count' = count - 1
    /\ pending' = (IF pending = <<>> THEN pending ELSE Tail(pending))
    /\ returned' = returned \cup {buffer[out]}

\* monitor_remove, the take: *doc = buffer[out]; out = (out + 1) % BUFFER_SIZE;
\* count--; the histories record the removal.
MonRemoveTake(c) ==
    /\ doc' = [doc EXCEPT ![c] = buffer[out]]
    /\ out' = (out + 1) % BUFFER_SIZE
    /\ count' = count - 1
    /\ pending' = (IF pending = <<>> THEN pending ELSE Tail(pending))
    /\ returned' = returned \cup {buffer[out]}

\* monitor_remove with the mutex held, up to the wait or the unlock.  A return
\* of 0 leaves the consumer at "c_ret0", a return of 1 back at its loop test.
MonRemove(c) ==
    /\ pq_impl = "monitor"
    /\ Running(c)
    /\ pq_pc[c] = "rm_cs"
    /\ pq_mutex = c
    /\ pq_mutex' = Free
    /\ IF MonRemoveEmpty
       THEN IF active_producers = 0
            THEN /\ pq_pc' = [pq_pc EXCEPT ![c] = "c_ret0"]
                 /\ UNCHANGED <<pqshared, not_full, not_empty, doc, pqhistory>>
            ELSE /\ not_empty' = not_empty \cup {c}
                 /\ pq_pc' = [pq_pc EXCEPT ![c] = "rm_wait"]
                 /\ UNCHANGED <<pqshared, not_full, doc, pqhistory>>
       ELSE IF MonRemoveStopped
       THEN /\ pq_pc' = [pq_pc EXCEPT ![c] = "c_ret0"]
            /\ UNCHANGED <<pqshared, not_full, not_empty, doc, pqhistory>>
       ELSE /\ MonRemoveTake(c)
            /\ \E w \in not_full \cup {Free} :
                 /\ Signalled(not_full, w)
                 /\ not_full' = not_full \ {w}
                 /\ pq_pc' = PcAfter(c, "c_loop", {w})
            /\ UNCHANGED <<buffer, in, active_producers, should_stop, not_empty,
                           inserted>>
    /\ UNCHANGED <<docs_produced, pqmain>>

\* consumer, after monitor_remove returned 0: else if (active_producers == 0) break;
MonConsumerRet0(c) ==
    /\ pq_impl = "monitor"
    /\ Running(c)
    /\ pq_pc[c] = "c_ret0"
    /\ pq_pc' = [pq_pc EXCEPT ![c] =
                    IF active_producers = 0 THEN "done" ELSE "c_loop"]
    /\ UNCHANGED <<pqshared, pq_mutex, not_full, not_empty, docs_produced, doc,
                   pqhistory, pqmain>>

MonProducer(p) ==
    \/ MonProducerLoop(p)
    \/ MonInsertLock(p)
    \/ MonInsert(p)
    \/ MonProducerFinLock(p)
    \/ MonProducerFin(p)

MonConsumer(c) ==
    \/ MonConsumerLoop(c)
    \/ MonRemoveLock(c)
    \/ MonRemove(c)
    \/ MonConsumerRet0(c)

----------------------------------------------------------------------------
(***************************************************************************)
(* print_system_mutex.c                                                    *)
(***************************************************************************)
\* producer, registration: pthread_mutex_lock.
MtxProducerRegLock(p) == pq_impl = "mutex" /\ PQLock(p, "reg_lock", "reg_cs")

\* producer, registration: active_producers++; unlock.
MtxProducerReg(p) ==
    /\ pq_impl = "mutex"
    /\ Running(p)
    /\ pq_pc[p] = "reg_cs"
    /\ pq_mutex = p
    /\ active_producers' = active_producers + 1
    /\ pq_mutex' = Free
    /\ pq_pc' = [pq_pc EXCEPT ![p] = "p_loop"]
    /\ UNCHANGED <<buffer, count, in, out, should_stop, not_full, not_empty,
                   docs_produced, doc, pqhistory, pqmain>>

\* producer, the loop test: docs_produced < MAX_DOCUMENTS && !should_stop
\* (should_stop is read without the mutex).
MtxProducerLoop(p) ==
    /\ pq_impl = "mutex"
    /\ Running(p)
    /\ pq_pc[p] = "p_loop"
    /\ pq_pc' = [pq_pc EXCEPT ![p] =
                    IF docs_produced[p] < MAX_DOCUMENTS /\ should_stop = 0
                    THEN "ins_lock" ELSE "fin_lock"]
    /\ UNCHANGED <<pqshared, pq_mutex, not_full, not_empty, docs_produced, doc,
                   pqhistory, pqmain>>

\* producer, the insert: pthread_mutex_lock.
MtxInsertLock(p) == pq_impl = "mutex" /\ PQLock(p, "ins_lock", "ins_cs")

\* producer never waiting: the loop condition without the test for a full buffer.
MtxInsertMustWait_NoFullTest == FALSE

\* producer, the condition of the inner while loop.
MtxInsertMustWait == count = BUFFER_SIZE /\ should_stop = 0

\* producer, the store: buffer[in] = doc; in = (in + 1) % BUFFER_SIZE; count++.
MtxInsertStore(d) ==
    /\ buffer' = [buffer EXCEPT ![in] = d]
    /\ in' = (in + 1) % BUFFER_SIZE
    /\ count' = count + 1
    /\ pending' = Append(pending, d)
    /\ inserted' = inserted \cup {d}

\* producer, the insert with the mutex held, up to the wait or the unlock;
\* should_stop breaks out of the loop without counting the document.
MtxInsert(p) ==
    /\ pq_impl = "mutex"
    /\ Running(p)
    /\ pq_pc[p] = "ins_cs"
    /\ pq_mutex = p
    /\ pq_mutex' = Free
    /\ IF MtxInsertMustWait
       THEN /\ not_full' = not_full \cup {p}
            /\ pq_pc' = [pq_pc EXCEPT ![p] = "ins_wait"]
            /\ UNCHANGED <<pqshared, not_empty, docs_produced, pqhistory>>
       ELSE IF should_stop = 1
       THEN /\ pq_pc' = [pq_pc EXCEPT ![p] = "fin_lock"]
            /\ UNCHANGED <<pqshared, not_full, not_empty, docs_produced, pqhistory>>
       ELSE /\ MtxInsertStore(DocId(p, docs_produced[p]))
            /\ \E w \in not_empty \cup {Free} :
                 /\ Signalled(not_empty, w)
                 /\ not_empty' = not_empty \ {w}
                 /\ pq_pc' = PcAfter(p, "p_loop", {w})
            /\ docs_produced' = [docs_produced EXCEPT ![p] = @ + 1]
            /\ UNCHANGED <<out, active_producers, should_stop, not_full, returned>>
    /\ UNCHANGED <<doc, pqmain>>

\* producer, after its loop: pthread_mutex_lock.
MtxProducerFinLock(p) == pq_impl = "mutex" /\ PQLock(p, "fin_lock", "fin_cs")

\* producer, after its loop: active_producers--; broadcast not_empty when it
\* reached 0; unlock.
MtxProducerFin(p) ==
    /\ pq_impl = "mutex"
    /\ Running(p)
    /\ pq_pc[p] = "fin_cs"
    /\ pq_mutex = p
    /\ active_producers' = active_producers - 1
    /\ IF active_producers - 1 = 0
       THEN /\ not_empty' = {}
            /\ pq_pc' = PcAfter(p, "done", not_empty)
       ELSE /\ not_empty' = not_empty
            /\ pq_pc' = PcAfter(p, "done", {})
    /\ pq_mutex' = Free
    /\ UNCHANGED <<buffer, count, in, out, should_stop, not_full,
                   docs_produced, doc, pqhistory, pqmain>>

\* consumer, the loop test: !should_stop (read without the mutex).  The
\* document of the round before has been printed and is not read again.
MtxConsumerLoop(c) ==
    /\ pq_impl = "mutex"
    /\ Running(c)
    /\ pq_pc[c] = "c_loop"
    /\ pq_pc' = [pq_pc EXCEPT ![c] =
                    IF should_stop = 0 THEN "rm_lock" ELSE "done"]
    /\ doc' = [doc EXCEPT ![c] = NoDoc]
    /\ UNCHANGED <<pqshared, pq_mutex, not_full, not_empty, docs_produced,
                   pqhistory, pqmain>>

\* consumer, the removal: pthread_mutex_lock.
MtxRemoveLock(c) == pq_impl = "mutex" /\ PQLock(c, "rm_lock", "rm_cs")

\* consumer, the condition of the inner while loop.
MtxRemoveEmpty == count = 0

\* consumer, the take: doc = buffer[out]; out = (out + 1) % BUFFER_SIZE; count--.
MtxRemoveTake(c) ==
    /\ doc' = [doc EXCEPT ![c] = buffer[out]]
    /\ out' = (out + 1) % BUFFER_SIZE
    /\ count' = count - 1
    /\ pending' = (IF pending = <<>> THEN pending ELSE Tail(pending))
    /\ returned' = returned \cup {buffer[out]}

\* consumer, the removal with the mutex held, up to the wait, the return or
\* the unlock.
MtxRemove(c) ==
    /\ pq_impl = "mutex"
    /\ Running(c)
    /\ pq_pc[c] = "rm_cs"
    /\ pq_mutex = c
    /\ pq_mutex' = Free
    /\ IF MtxRemoveEmpty
       THEN IF active_producers = 0
            THEN /\ pq_pc' = [pq_pc EXCEPT ![c] = "done"]
                 /\ UNCHANGED <<pqshared, not_full, not_empty, doc, pqhistory>>
            ELSE /\ not_empty' = not_empty \cup {c}
                 /\ pq_pc' = [pq_pc EXCEPT ![c] = "rm_wait"]
                 /\ UNCHANGED <<pqshared, not_full, doc, pqhistory>>
       ELSE /\ MtxRemoveTake(c)
            /\ \E w \in not_full \cup {Free} :
                 /\ Signalled(not_full, w)
                 /\ not_full' = not_full \ {w}
                 /\ pq_pc' = PcAfter(c, "c_loop", {w})
            /\ UNCHANGED <<buffer, in, active_producers, should_stop, not_empty,
                           inserted>>
    /\ UNCHANGED <<docs_produced, pqmain>>

MtxProducer(p) ==
    \/ MtxProducerRegLock(p)
    \/ MtxProducerReg(p)
    \/ MtxProducerLoop(p)
    \/ MtxInsertLock(p)
    \/ MtxInsert(p)
    \/ MtxProducerFinLock(p)
    \/ MtxProducerFin(p)

MtxConsumer(c) ==
    \/ MtxConsumerLoop(c)
    \/ MtxRemoveLock(c)
    \/ MtxRemove(c)

----------------------------------------------------------------------------
(***************************************************************************)
(* video_studio_monitor.c and video_studio_mutex.c.  main sets should_stop *)
(* (monitor) only when pthread_create fails, and then ends the process;    *)
(* the model starts with the five editors created, so should_stop is 0 and *)
(* the editor's loop runs while i < NUM_EDITS in both files.               *)
(*                                                                         *)
(* can_edit, try_to_edit and test_editor are called several times inside   *)
(* one critical section; they are functions of the studio s = [state,      *)
(* board, sig], sig being the editors whose condition variable was         *)
(* signalled.                                                              *)
(***************************************************************************)
\* monitor_init / init_studio: every editor THINKING, every board free.
VSInitFor(impl) ==
    /\ vs_impl = impl
    /\ vs_state = [e \in Editors |-> "THINKING"]
    /\ board_in_use = [b \in Boards |-> 0]
    /\ vs_mutex = NoEditor
    /\ vs_pc = [e \in Editors |-> "think"]
    /\ edits = [e \in Editors |-> 0]

Studio == [state |-> vs_state, board |-> board_in_use, sig |-> {}]

LeftOf(e) == (e + NUM_EDITORS - 1) % NUM_EDITORS

RightOf(e) == (e + 1) % NUM_EDITORS

\* can_edit looking at the left board only.
MonCanEdit_IgnoreRightBoard(s, e) ==
    /\ s.state[e] = "HUNGRY"
    /\ s.board[e] = 0

\* can_edit of video_studio_monitor.c
MonCanEdit(s, e) ==
    /\ s.state[e] = "HUNGRY"
    /\ s.board[e] = 0
    /\ s.board[(e + 1) % NUM_BOARDS] = 0

\* try_to_edit marking the left board only.
MonTryToEdit_MarkLeftOnly(s, e) ==
    IF MonCanEdit(s, e)
    THEN [state |-> [s.state EXCEPT ![e] = "EDITING"],
          board |-> [s.board EXCEPT ![e] = 1],
          sig   |-> s.sig \cup {e}]
    ELSE s

\* try_to_edit of video_studio_monitor.c
MonTryToEdit(s, e) ==
    IF MonCanEdit(s, e)
    THEN [state |-> [s.state EXCEPT ![e] = "EDITING"],
          board |-> [s.board EXCEPT ![e] = 1, ![(e + 1) % NUM_BOARDS] = 1],
          sig   |-> s.sig \cup {e}]
    ELSE s

\* can_edit looking at the right board only.
MtxCanEdit_IgnoreLeftBoard(s, e) ==
    /\ s.state[e] = "HUNGRY"
    /\ s.board[(e + 1) % NUM_BOARDS] = 0

\* can_edit of video_studio_mutex.c
MtxCanEdit(s, e) ==
    /\ s.state[e] = "HUNGRY"
    /\ s.board[e] = 0
    /\ s.board[(e + 1) % NUM_BOARDS] = 0

\* test_editor of video_studio_mutex.c
MtxTestEditor(s, e) ==
    IF MtxCanEdit(s, e)
    THEN [state |-> [s.state EXCEPT ![e] = "EDITING"],
          board |-> [s.board EXCEPT ![e] = 1, ![(e + 1) % NUM_BOARDS] = 1],
          sig   |-> s.sig \cup {e}]
    ELSE s

\* request_boards granting without try_to_edit.
MonRequest_NoTest(s, e) ==
    [s EXCEPT !.state = [s.state EXCEPT ![e] = "EDITING"],
              !.board = [s.board EXCEPT ![e] = 1, ![(e + 1) % NUM_BOARDS] = 1]]

\* request_boards up to its while loop: state = HUNGRY; try_to_edit(editor_id)
MonRequest(s, e) ==
    MonTryToEdit([s EXCEPT !.state = [s.state EXCEPT ![e] = "HUNGRY"]], e)

\* take_boards going to wait without test_editor.
MtxTake_NoTest(s, e) ==
    [s EXCEPT !.state = [s.state EXCEPT ![e] = "HUNGRY"]]

\* take_boards up to its while loop: state = HUNGRY; test_editor(editor_id)
MtxTake(s, e) ==
    MtxTestEditor([s EXCEPT !.state = [s.state EXCEPT ![e] = "HUNGRY"]], e)

\* The release freeing the left board only.
Released_LeftBoardOnly(s, e) ==
    [s EXCEPT !.state = [s.state EXCEPT ![e] = "THINKING"],
              !.board = [s.board EXCEPT ![e] = 0]]

\* The release with both boards freed and the editor THINKING, before the
\* neighbours are looked at.
Released(s, e) ==
    [s EXCEPT !.state = [s.state EXCEPT ![e] = "THINKING"],
              !.board = [s.board EXCEPT ![e] = 0, ![(e + 1) % NUM_BOARDS] = 0]]

\* release_boards forgetting the left neighbour.
MonRelease_RightNeighbourOnly(s, e) ==
    MonTryToEdit(Released(s, e), RightOf(e))

\* release_boards: free both boards, then try_to_edit the left and the right
\* neighbour.
MonRelease(s, e) ==
    MonTryToEdit(MonTryToEdit(Released(s, e), LeftOf(e)), RightOf(e))

\* put_boards forgetting the right neighbour.
MtxPut_LeftNeighbourOnly(s, e) ==
    MtxTestEditor(Released(s, e), LeftOf(e))

\* put_boards: free both boards, then test_editor the left and the right
\* neighbour.
MtxPut(s, e) ==
    MtxTestEditor(MtxTestEditor(Released(s, e), LeftOf(e)), RightOf(e))

\* The program counters after editor e moved to pc `to` and the condition
\* variables of the editors in sig were signalled: an editor blocked in
\* pthread_cond_wait goes on to take the mutex again.
VSPcAfter(e, to, sig) ==
    [x \in Editors |-> IF x = e THEN to
                       ELSE IF x \in sig /\ vs_pc[x] = "req_wait" THEN "req_relock"
                       ELSE vs_pc[x]]

\* The test of the editor's for loop, and think(id).
VSLoop(e) ==
    /\ vs_pc[e] = "think"
    /\ vs_pc' = [vs_pc EXCEPT ![e] =
                    IF edits[e] < NUM_EDITS THEN "req_lock" ELSE "done"]
    /\ UNCHANGED <<vs_state, board_in_use, vs_mutex, edits, vsrest>>

\* pthread_mutex_lock(&studio.mutex) by editor e at pc `from`.
VSLock(e, from, to) ==
    /\ vs_pc[e] = from
    /\ vs_mutex = NoEditor
    /\ vs_mutex' = e
    /\ vs_pc' = [vs_pc EXCEPT ![e] = to]
    /\ UNCHANGED <<vs_state, board_in_use, edits, vsrest>>

\* The request with the mutex held: s is the studio after HUNGRY and the try;
\* then the while loop: wait while still HUNGRY, else unlock and go on to edit.
VSRequestStep(e, s) ==
    /\ vs_pc[e] = "req_cs"
    /\ vs_mutex = e
    /\ vs_state' = s.state
    /\ board_in_use' = s.board
    /\ vs_pc' = VSPcAfter(e, IF s.state[e] = "HUNGRY" THEN "req_wait" ELSE "edit",
                          s.sig)
    /\ vs_mutex' = NoEditor
    /\ UNCHANGED <<edits, vsrest>>

\* The while loop of the request after a wake-up, the mutex held again: wait
\* again while still HUNGRY, else unlock and go on to edit.
VSRecheck(e) ==
    /\ vs_pc[e] = "req_recheck"
    /\ vs_mutex = e
    /\ vs_pc' = [vs_pc EXCEPT ![e] =
                    IF vs_state[e] = "HUNGRY" THEN "req_wait" ELSE "edit"]
    /\ vs_mutex' = NoEditor
    /\ UNCHANGED <<vs_state, board_in_use, edits, vsrest>>

\* The release with the mutex held: s is the studio after the release and the
\* tries of both neighbours; then unlock, and i++ of the for loop.
VSReleaseStep(e, s) ==
    /\ vs_pc[e] = "rel_cs"
    /\ vs_mutex = e
    /\ vs_state' = s.state
    /\ board_in_use' = s.board
    /\ vs_pc' = VSPcAfter(e, "think", s.sig)
    /\ vs_mutex' = NoEditor
    /\ edits' = [edits EXCEPT ![e] = @ + 1]
    /\ UNCHANGED vsrest

\* pthread_cond_wait returning without a signal (POSIX allows it).
VSSpuriousWakeup(e) ==
    /\ vs_pc[e] = "req_wait"
    /\ vs_pc' = [vs_pc EXCEPT ![e] = "req_relock"]
    /\ UNCHANGED <<vs_state, board_in_use, vs_mutex, edits, vsrest>>

\* video_studio_monitor.c: editor, request_boards, release_boards.
MonEditorLoop(e) == vs_impl = "monitor" /\ VSLoop(e)

MonRequestLock(e) == vs_impl = "monitor" /\ VSLock(e, "req_lock", "req_cs")

MonRequestBoards(e) == vs_impl = "monitor" /\ VSRequestStep(e, MonRequest(Studio, e))

MonRequestRelock(e) == vs_impl = "monitor" /\ VSLock(e, "req_relock", "req_recheck")

MonRequestRecheck(e) == vs_impl = "monitor" /\ VSRecheck(e)

MonReleaseLock(e) == vs_impl = "monitor" /\ VSLock(e, "edit", "rel_cs")

MonReleaseBoards(e) == vs_impl = "monitor" /\ VSReleaseStep(e, MonRelease(Studio, e))

MonEditor(e) ==
    \/ MonEditorLoop(e)
    \/ MonRequestLock(e)
    \/ MonRequestBoards(e)
    \/ MonRequestRelock(e)
    \/ MonRequestRecheck(e)
    \/ MonReleaseLock(e)
    \/ MonReleaseBoards(e)

\* video_studio_mutex.c: editor, take_boards, put_boards.
MtxEditorLoop(e) == vs_impl = "mutex" /\ VSLoop(e)

MtxTakeLock(e) == vs_impl = "mutex" /\ VSLock(e, "req_lock", "req_cs")

MtxTakeBoards(e) == vs_impl = "mutex" /\ VSRequestStep(e, MtxTake(Studio, e))

MtxTakeRelock(e) == vs_impl = "mutex" /\ VSLock(e, "req_relock", "req_recheck")

MtxTakeRecheck(e) == vs_impl = "mutex" /\ VSRecheck(e)

MtxPutLock(e) == vs_impl = "mutex" /\ VSLock(e, "edit", "rel_cs")

MtxPutBoards(e) == vs_impl = "mutex" /\ VSReleaseStep(e, MtxPut(Studio, e))

MtxEditor(e) ==
    \/ MtxEditorLoop(e)
    \/ MtxTakeLock(e)
    \/ MtxTakeBoards(e)
    \/ MtxTakeRelock(e)
    \/ MtxTakeRecheck(e)
    \/ MtxPutLock(e)
    \/ MtxPutBoards(e)

----------------------------------------------------------------------------
(***************************************************************************)
(* video_studio_sem.c.  sem_wait is a step that needs the semaphore above  *)
(* 0; the section between sem_wait(&studio.mutex) and sem_post(&studio.    *)
(* mutex) runs as one step.  test_editor is a function of the studio       *)
(* s = [state, sem], sem being the values of sem_editors.                  *)
(***************************************************************************)
\* init_studio: mutex 1, every sem_editors 0, every board semaphore 1.
SemInitStudio ==
    /\ vss_state = [e \in Editors |-> "THINKING"]
    /\ sem_editors = [e \in Editors |-> 0]
    /\ vss_mutex = 1
    /\ boards = [b \in Boards |-> 1]
    /\ vss_pc = [e \in Editors |-> "think"]
    /\ vss_edits = [e \in Editors |-> 0]

SemStudio == [state |-> vss_state, sem |-> sem_editors]

\* test_editor of video_studio_sem.c: left = editor_id, right = (editor_id + 1)
\* % NUM_EDITORS.
SemTestEditor(s, e) ==
    LET left == e
        right == (e + 1) % NUM_EDITORS
    IN  IF /\ s.state[e] = "HUNGRY"
           /\ s.state[left] # "EDITING"
           /\ s.state[right] # "EDITING"
        THEN [state |-> [s.state EXCEPT ![e] = "EDITING"],
              sem   |-> [s.sem EXCEPT ![e] = @ + 1]]
        ELSE s

\* editor: the test of the for loop, and think(id).
SemEditorLoop(e) ==
    /\ vss_pc[e] = "think"
    /\ vss_pc' = [vss_pc EXCEPT ![e] =
                    IF vss_edits[e] < NUM_EDITS THEN "get_mutex" ELSE "done"]
    /\ UNCHANGED <<vss_state, sem_editors, vss_mutex, boards, vss_edits, vssrest>>

\* sem_wait(&studio.mutex) by editor e at pc `from`.
SemWaitMutex(e, from, to) ==
    /\ vss_pc[e] = from
    /\ vss_mutex > 0
    /\ vss_mutex' = vss_mutex - 1
    /\ vss_pc' = [vss_pc EXCEPT ![e] = to]
    /\ UNCHANGED <<vss_state, sem_editors, boards, vss_edits, vssrest>>

\* get_boards: sem_wait(&studio.mutex)
SemGetMutex(e) == SemWaitMutex(e, "get_mutex", "get_cs")

\* get_boards: state = HUNGRY; test_editor(editor_id); sem_post(&studio.mutex)
SemGetBoards(e) ==
    /\ vss_pc[e] = "get_cs"
    /\ LET s == SemTestEditor([SemStudio EXCEPT
                                  !.state = [vss_state EXCEPT ![e] = "HUNGRY"]], e)
       IN  /\ vss_state' = s.state
           /\ sem_editors' = s.sem
    /\ vss_mutex' = vss_mutex + 1
    /\ vss_pc' = [vss_pc EXCEPT ![e] = "wait_editor"]
    /\ UNCHANGED <<boards, vss_edits, vssrest>>

\* get_boards: sem_wait(&studio.sem_editors[editor_id])
SemWaitEditor(e) ==
    /\ vss_pc[e] = "wait_editor"
    /\ sem_editors[e] > 0
    /\ sem_editors' = [sem_editors EXCEPT ![e] = @ - 1]
    /\ vss_pc' = [vss_pc EXCEPT ![e] = "wait_left"]
    /\ UNCHANGED <<vss_state, vss_mutex, boards, vss_edits, vssrest>>

\* get_boards: sem_wait(&studio.boards[editor_id])
SemWaitLeftBoard(e) ==
    /\ vss_pc[e] = "wait_left"
    /\ boards[e] > 0
    /\ boards' = [boards EXCEPT ![e] = @ - 1]
    /\ vss_pc' = [vss_pc EXCEPT ![e] = "wait_right"]
    /\ UNCHANGED <<vss_state, sem_editors, vss_mutex, vss_edits, vssrest>>

\* A get_boards that takes the right board without waiting for it.
SemWaitRightBoard_NoWait(e) ==
    /\ vss_pc[e] = "wait_right"
    /\ boards' = [boards EXCEPT ![(e + 1) % NUM_BOARDS] = @ - 1]
    /\ vss_pc' = [vss_pc EXCEPT ![e] = "edit"]
    /\ UNCHANGED <<vss_state, sem_editors, vss_mutex, vss_edits, vssrest>>

\* get_boards: sem_wait(&studio.boards[(editor_id + 1) % NUM_BOARDS])
SemWaitRightBoard(e) ==
    /\ vss_pc[e] = "wait_right"
    /\ boards[(e + 1) % NUM_BOARDS] > 0
    /\ boards' = [boards EXCEPT ![(e + 1) % NUM_BOARDS] = @ - 1]
    /\ vss_pc' = [vss_pc EXCEPT ![e] = "edit"]
    /\ UNCHANGED <<vss_state, sem_editors, vss_mutex, vss_edits, vssrest>>

\* edit(id) is over; put_boards: sem_wait(&studio.mutex)
SemPutMutex(e) == SemWaitMutex(e, "edit", "put_cs")

\* put_boards that does not look at the neighbours.
SemPutBoards_NoNeighbourTest(e) ==
    /\ vss_pc[e] = "put_cs"
    /\ vss_state' = [vss_state EXCEPT ![e] = "THINKING"]
    /\ boards' = [b \in Boards |->
                    boards[b] + (IF b = e THEN 1 ELSE 0)
                              + (IF b = (e + 1) % NUM_BOARDS THEN 1 ELSE 0)]
    /\ vss_mutex' = vss_mutex + 1
    /\ vss_edits' = [vss_edits EXCEPT ![e] = @ + 1]
    /\ vss_pc' = [vss_pc EXCEPT ![e] = "think"]
    /\ UNCHANGED <<sem_editors, vssrest>>

\* put_boards: state = THINKING; sem_post of both boards; test_editor of the
\* left and the right neighbour; sem_post(&studio.mutex); then i++.
SemPutBoards(e) ==
    /\ vss_pc[e] = "put_cs"
    /\ LET s0 == [SemStudio EXCEPT !.state = [vss_state EXCEPT ![e] = "THINKING"]]
           s  == SemTestEditor(SemTestEditor(s0, LeftOf(e)), RightOf(e))
       IN  /\ vss_state' = s.state
           /\ sem_editors' = s.sem
    /\ boards' = [b \in Boards |->
                    boards[b] + (IF b = e THEN 1 ELSE 0)
                              + (IF b = (e + 1) % NUM_BOARDS THEN 1 ELSE 0)]
    /\ vss_mutex' = vss_mutex + 1
    /\ vss_edits' = [vss_edits EXCEPT ![e] = @ + 1]
    /\ vss_pc' = [vss_pc EXCEPT ![e] = "think"]
    /\ UNCHANGED vssrest

\* editor of video_studio_sem.c
SemEditor(e) ==
    \/ SemEditorLoop(e)
    \/ SemGetMutex(e)
    \/ SemGetBoards(e)
    \/ SemWaitEditor(e)
    \/ SemWaitLeftBoard(e)
    \/ SemWaitRightBoard(e)
    \/ SemPutMutex(e)
    \/ SemPutBoards(e)

----------------------------------------------------------------------------
(***************************************************************************)
(* print_system_sem.c: the print queue on counting semaphores.  empty      *)
(* counts the free slots, full the stored documents, mutex (pq_mutex here) *)
(* guards buffer, in and out.  There is no count: count, active_producers  *)
(* and the condition variables of the other two versions stay untouched.   *)
(***************************************************************************)
\* What no step of print_system_sem.c changes.
psrest == <<pq_impl, count, active_producers, not_full, not_empty,
            vsvars, vssvars, rwvars, invars>>

\* The globals' initialisers and init_semaphores: empty = BUFFER_SIZE,
\* full = 0, mutex = 1; buffer is a zero-initialised global.
SemPQInitQueue ==
    /\ pq_impl = "sem"
    /\ buffer = [i \in 0..(BUFFER_SIZE - 1) |-> 0]
    /\ count = 0
    /\ in = 0
    /\ out = 0
    /\ active_producers = 0
    /\ should_stop = 0
    /\ pq_mutex = Free
    /\ not_full = {}
    /\ not_empty = {}
    /\ pq_pc = [t \in PQThreads |-> IF t \in Producers THEN "p_loop" ELSE "c_loop"]
    /\ docs_produced = [p \in Producers |-> 0]
    /\ doc = [c \in Consumers |-> NoDoc]
    /\ main_pc = "create"
    /\ created = 0
    /\ pending = <<>>
    /\ inserted = {}
    /\ returned = {}
    /\ empty = BUFFER_SIZE
    /\ full = 0
    /\ posted = 0

\* sem_wait(&mutex) by thread t at pc `from`.
SemPQWaitMutex(t, from, to) ==
    /\ pq_impl = "sem"
    /\ Running(t)
    /\ pq_pc[t] = from
    /\ pq_mutex = Free
    /\ pq_mutex' = t
    /\ pq_pc' = [pq_pc EXCEPT ![t] = to]
    /\ UNCHANGED <<buffer, in, out, should_stop, docs_produced, doc, pqhistory,
                   main_pc, created, psvars, psrest>>

\* producer, the loop test: docs_produced < MAX_DOCUMENTS && !should_stop
SemProducerLoop(p) ==
    /\ pq_impl = "sem"
    /\ Running(p)
    /\ pq_pc[p] = "p_loop"
    /\ pq_pc' = [pq_pc EXCEPT ![p] =
                    IF docs_produced[p] < MAX_DOCUMENTS /\ should_stop = 0
                    THEN "wait_empty" ELSE "done"]
    /\ UNCHANGED <<buffer, in, out, should_stop, pq_mutex, docs_produced, doc,
                   pqhistory, main_pc, created, psvars, psrest>>

\* A producer that goes on to insert without sem_wait(&empty).
SemProducerWaitEmpty_NoWait(p) ==
    /\ pq_impl = "sem"
    /\ Running(p)
    /\ pq_pc[p] = "wait_empty"
    /\ pq_pc' = [pq_pc EXCEPT ![p] = "ins_lock"]
    /\ UNCHANGED <<buffer, in, out, should_stop, pq_mutex, docs_produced, doc,
                   pqhistory, main_pc, created, psvars, psrest>>

\* producer: sem_wait(&empty)
SemProducerWaitEmpty(p) ==
    /\ pq_impl = "sem"
    /\ Running(p)
    /\ pq_pc[p] = "wait_empty"
    /\ empty > 0
    /\ empty' = empty - 1
    /\ pq_pc' = [pq_pc EXCEPT ![p] = "ins_lock"]
    /\ UNCHANGED <<buffer, in, out, should_stop, pq_mutex, docs_produced, doc,
                   pqhistory, main_pc, created, full, posted, psrest>>

\* producer: sem_wait(&mutex)
SemProducerWaitMutex(p) == SemPQWaitMutex(p, "ins_lock", "ins_cs")

\* producer: buffer[in] = doc; in = (in + 1) % BUFFER_SIZE; sem_post(&mutex);
\* the histories record the insert.
SemProducerStore(p) ==
    /\ pq_impl = "sem"
    /\ Running(p)
    /\ pq_pc[p] = "ins_cs"
    /\ pq_mutex = p
    /\ buffer' = [buffer EXCEPT ![in] = DocId(p, docs_produced[p])]
    /\ in' = (in + 1) % BUFFER_SIZE
    /\ pending' = Append(pending, DocId(p, docs_produced[p]))
    /\ inserted' = inserted \cup {DocId(p, docs_produced[p])}
    /\ pq_mutex' = Free
    /\ pq_pc' = [pq_pc EXCEPT ![p] = "post_full"]
    /\ UNCHANGED <<out, should_stop, docs_produced, doc, returned, main_pc,
                   created, psvars, psrest>>

\* producer: sem_post(&full); docs_produced++
SemProducerPostFull(p) ==
    /\ pq_impl = "sem"
    /\ Running(p)
    /\ pq_pc[p] = "post_full"
    /\ full' = full + 1
    /\ docs_produced' = [docs_produced EXCEPT ![p] = @ + 1]
    /\ pq_pc' = [pq_pc EXCEPT ![p] = "p_loop"]
    /\ UNCHANGED <<buffer, in, out, should_stop, pq_mutex, doc, pqhistory,
                   main_pc, created, empty, posted, psrest>>

\* consumer, the loop test: !should_stop
SemConsumerLoop(c) ==
    /\ pq_impl = "sem"
    /\ Running(c)
    /\ pq_pc[c] = "c_loop"
    /\ pq_pc' = [pq_pc EXCEPT ![c] = IF should_stop = 0 THEN "wait_full" ELSE "done"]
    /\ doc' = [doc EXCEPT ![c] = NoDoc]
    /\ UNCHANGED <<buffer, in, out, should_stop, pq_mutex, docs_produced,
                   pqhistory, main_pc, created, psvars, psrest>>

\* consumer: sem_wait(&full)
SemConsumerWaitFull(c) ==
    /\ pq_impl = "sem"
    /\ Running(c)
    /\ pq_pc[c] = "wait_full"
    /\ full > 0
    /\ full' = full - 1
    /\ pq_pc' = [pq_pc EXCEPT ![c] = "rm_lock"]
    /\ UNCHANGED <<buffer, in, out, should_stop, pq_mutex, docs_produced, doc,
                   pqhistory, main_pc, created, empty, posted, psrest>>

\* consumer: sem_wait(&mutex)
SemConsumerWaitMutex(c) == SemPQWaitMutex(c, "rm_lock", "rm_cs")

\* consumer: Document doc = buffer[out]; out = (out + 1) % BUFFER_SIZE;
\* sem_post(&mutex); the histories record what was taken.
SemConsumerTake(c) ==
    /\ pq_impl = "sem"
    /\ Running(c)
    /\ pq_pc[c] = "rm_cs"
    /\ pq_mutex = c
    /\ doc' = [doc EXCEPT ![c] = buffer[out]]
    /\ out' = (out + 1) % BUFFER_SIZE
    /\ pending' = SelectSeq(pending, LAMBDA d : d # buffer[out])
    /\ returned' = returned \cup {buffer[out]}
    /\ pq_mutex' = Free
    /\ pq_pc' = [pq_pc EXCEPT ![c] = "post_empty"]
    /\ UNCHANGED <<buffer, in, should_stop, docs_produced, inserted, main_pc,
                   created, psvars, psrest>>

\* consumer: sem_post(&empty)
SemConsumerPostEmpty(c) ==
    /\ pq_impl = "sem"
    /\ Running(c)
    /\ pq_pc[c] = "post_empty"
    /\ empty' = empty + 1
    /\ pq_pc' = [pq_pc EXCEPT ![c] = "c_loop"]
    /\ UNCHANGED <<buffer, in, out, should_stop, pq_mutex, docs_produced, doc,
                   pqhistory, main_pc, created, full, posted, psrest>>

SemProducer(p) ==
    \/ SemProducerLoop(p)
    \/ SemProducerWaitEmpty(p)
    \/ SemProducerWaitMutex(p)
    \/ SemProducerStore(p)
    \/ SemProducerPostFull(p)

SemConsumer(c) ==
    \/ SemConsumerLoop(c)
    \/ SemConsumerWaitFull(c)
    \/ SemConsumerWaitMutex(c)
    \/ SemConsumerTake(c)
    \/ SemConsumerPostEmpty(c)

\* main: the pthread_join loop over the producers returns.
SemMainJoinProducers ==
    /\ pq_impl = "sem"
    /\ main_pc = "join"
    /\ \A p \in Producers : pq_pc[p] = "done"
    /\ main_pc' = "stop"
    /\ UNCHANGED <<buffer, in, out, should_stop, pq_mutex, pq_pc, docs_produced,
                   doc, pqhistory, created, psvars, psrest>>

\* main: should_stop = 1
SemMainStop ==
    /\ pq_impl = "sem"
    /\ main_pc = "stop"
    /\ should_stop' = 1
    /\ main_pc' = "post"
    /\ UNCHANGED <<buffer, in, out, pq_mutex, pq_pc, docs_produced, doc,
                   pqhistory, created, psvars, psrest>>

\* main: for (i = 0; i < NUM_CONSUMERS; i++) sem_post(&full);
SemMainPost ==
    /\ pq_impl = "sem"
    /\ main_pc = "post"
    /\ posted < NUM_CONSUMERS
    /\ full' = full + 1
    /\ posted' = posted + 1
    /\ UNCHANGED <<buffer, in, out, should_stop, pq_mutex, pq_pc, docs_produced,
                   doc, pqhistory, main_pc, created, empty, psrest>>

\* main: the pthread_join loop over the consumers returns; return 0.
SemMainJoinConsumers ==
    /\ pq_impl = "sem"
    /\ main_pc = "post"
    /\ posted = NUM_CONSUMERS
    /\ \A c \in Consumers : pq_pc[c] = "done"
    /\ main_pc' = "finished"
    /\ UNCHANGED <<buffer, in, out, should_stop, pq_mutex, pq_pc, docs_produced,
                   doc, pqhistory, created, psvars, psrest>>

\* main of print_system_sem.c; the thread creation is that of the other two
\* versions (a failing pthread_create sets should_stop and returns 1).
SemMain ==
    \/ MainCreate
    \/ MainCreateFail
    \/ MainExit
    \/ SemMainJoinProducers
    \/ SemMainStop
    \/ SemMainPost
    \/ SemMainJoinConsumers

----------------------------------------------------------------------------
(***************************************************************************)
(* Product catalog, readers and writers.  main creates NUM_READERS readers *)
(* and NUM_WRITERS writers; the model starts with all of them created and  *)
(* none of them run yet.  (A failing pthread_create returns from main,     *)
(* which ends the process; catalog.should_stop of the monitor version is   *)
(* set only there, so the threads' loop tests always read it as 0.)        *)
(*                                                                         *)
(* A reader is inside its query section, a writer inside its update        *)
(* section, while its program counter is "reading" / "writing".            *)
(***************************************************************************)
\* The catalog holds MAX_PRODUCTS products, catalog.products[0] onwards.
MAX_PRODUCTS == 2

ProductIndexes == 0..(MAX_PRODUCTS - 1)

\* monitor_init / init_catalog, the loop over the products: id = i + 1,
\* price = 10.0 + (rand() % 1000), stock = rand() % 50.  Prices are floats in
\* the source; here they are whole hundredths.
InitialPrices == {1000, 100900}

InitialStocks == {0, 2, 49}

InitialCatalogs ==
    {ps \in [ProductIndexes -> [id : 1..MAX_PRODUCTS, price : InitialPrices,
                                stock : InitialStocks]] :
        \A i \in ProductIndexes : ps[i].id = i + 1}

\* writer: product_id = rand() % MAX_PRODUCTS, price_change = (rand() % 20)
\* - 10, stock_change = (rand() % 10) - 3.
PriceChanges == {-10, 9}

StockChanges == {-3, 6}

Draws == ProductIndexes \X PriceChanges \X StockChanges

\* A writer update that lets the stock go below 0.
Updated_NoFloor(ps, d) ==
    LET product == ps[d[1]]
    IN  [ps EXCEPT ![d[1]] = [id    |-> product.id,
                              price |-> (product.price * (100 + d[2])) \div 100,
                              stock |-> product.stock + d[3]]]

\* writer, the update of its section: price *= (1 + price_change / 100.0);
\* stock = stock + stock_change; if (stock < 0) stock = 0.
Updated(ps, d) ==
    LET product == ps[d[1]]
        stock   == product.stock + d[3]
    IN  [ps EXCEPT ![d[1]] = [id    |-> product.id,
                              price |-> (product.price * (100 + d[2])) \div 100,
                              stock |-> IF stock < 0 THEN 0 ELSE stock]]

\* The update a writer makes inside its section, with what rand() hands it.
WriterUpdates == \E d \in rw_draws : products' = Updated(products, d)

\* monitor_init / init_catalog and the initialiser of catalog.
RWInitFor(impl) ==
    /\ rw_impl = impl
    /\ num_readers = 0
    /\ num_writers = 0
    /\ writer_waiting = 0
    /\ rw_mutex = Free
    /\ write_mutex = Free
    /\ can_read = {}
    /\ can_write = {}
    /\ rw_pc = [t \in RWThreads |-> IF t \in Readers THEN "r_loop" ELSE "w_loop"]
    /\ rw_i = [t \in RWThreads |-> 0]

\* reader / writer, the test of the for loop: i < NUM_READS / i < NUM_WRITES
RWLoop(t, to) ==
    /\ rw_pc[t] = (IF t \in Readers THEN "r_loop" ELSE "w_loop")
    /\ rw_pc' = [rw_pc EXCEPT ![t] =
                    IF rw_i[t] < (IF t \in Readers THEN NUM_READS ELSE NUM_WRITES)
                    THEN to ELSE "done"]
    /\ UNCHANGED <<num_readers, num_writers, writer_waiting, rw_mutex,
                   write_mutex, can_read, can_write, rw_i, products, rwrest>>

\* pthread_mutex_lock(&catalog.mutex) / sem_wait(&catalog.read_mutex) by
\* thread t at pc `from`.
RWLock(t, from, to) ==
    /\ rw_pc[t] = from
    /\ rw_mutex = Free
    /\ rw_mutex' = t
    /\ rw_pc' = [rw_pc EXCEPT ![t] = to]
    /\ UNCHANGED <<num_readers, num_writers, writer_waiting, write_mutex,
                   can_read, can_write, rw_i, products, rwrest>>

----------------------------------------------------------------------------
(***************************************************************************)
(* ecommerce_monitor.c                                                     *)
(***************************************************************************)
\* Where a thread woken from pthread_cond_wait goes on: it takes the mutex
\* again and evaluates the condition of its while loop again.
CatWakePc(t) == IF t \in Readers THEN "sr_lock" ELSE "sw_relock"

\* The program counters after thread t moved to pc `to` and the threads in ws
\* were woken.
CatPcAfter(t, to, ws) ==
    [x \in RWThreads |-> IF x = t THEN to
                         ELSE IF x \in ws THEN CatWakePc(x)
                         ELSE rw_pc[x]]

\* pthread_cond_wait returning without a signal (POSIX allows it).
CatSpuriousWakeup(t) ==
    /\ rw_impl = "monitor"
    /\ t \in can_read \cup can_write
    /\ can_read' = can_read \ {t}
    /\ can_write' = can_write \ {t}
    /\ rw_pc' = [rw_pc EXCEPT ![t] = CatWakePc(t)]
    /\ UNCHANGED <<num_readers, num_writers, writer_waiting, rw_mutex,
                   write_mutex, rw_i, products, rwrest>>

CatMonReaderLoop(r) == rw_impl = "monitor" /\ RWLoop(r, "sr_lock")

\* start_read: pthread_mutex_lock, also after a wake-up.
CatMonStartReadLock(r) == rw_impl = "monitor" /\ RWLock(r, "sr_lock", "sr_cs")

\* start_read admitting readers past waiting writers.
CatMonReaderMustWait_IgnoreWaitingWriters == num_writers > 0

\* start_read, the condition of its while loop.
CatMonReaderMustWait == num_writers > 0 \/ writer_waiting > 0

\* start_read with the mutex held, up to the wait or the unlock.
CatMonStartRead(r) ==
    /\ rw_impl = "monitor"
    /\ rw_pc[r] = "sr_cs"
    /\ rw_mutex = r
    /\ rw_mutex' = Free
    /\ IF CatMonReaderMustWait
       THEN /\ can_read' = can_read \cup {r}
            /\ rw_pc' = [rw_pc EXCEPT ![r] = "sr_wait"]
            /\ UNCHANGED num_readers
       ELSE /\ num_readers' = num_readers + 1
            /\ rw_pc' = [rw_pc EXCEPT ![r] = "reading"]
            /\ UNCHANGED can_read
    /\ UNCHANGED <<num_writers, writer_waiting, write_mutex, can_write, rw_i,
                   products, rwrest>>

\* end_read: pthread_mutex_lock; the query section ends here.
CatMonEndReadLock(r) == rw_impl = "monitor" /\ RWLock(r, "reading", "er_cs")

\* end_read without the signal to can_write.
CatMonEndRead_NoSignal(r) ==
    /\ rw_impl = "monitor"
    /\ rw_pc[r] = "er_cs"
    /\ rw_mutex = r
    /\ rw_mutex' = Free
    /\ num_readers' = num_readers - 1
    /\ rw_pc' = [rw_pc EXCEPT ![r] = "r_loop"]
    /\ rw_i' = [rw_i EXCEPT ![r] = @ + 1]
    /\ UNCHANGED <<num_writers, writer_waiting, write_mutex, can_read,
                   can_write, products, rwrest>>

\* end_read with the mutex held: num_readers--; the last reader signals
\* can_write; back in reader, i++.
CatMonEndRead(r) ==
    /\ rw_impl = "monitor"
    /\ rw_pc[r] = "er_cs"
    /\ rw_mutex = r
    /\ rw_mutex' = Free
    /\ num_readers' = num_readers - 1
    /\ IF num_readers - 1 = 0
       THEN \E w \in can_write \cup {Free} :
              /\ Signalled(can_write, w)
              /\ can_write' = can_write \ {w}
              /\ rw_pc' = CatPcAfter(r, "r_loop", {w})
       ELSE /\ rw_pc' = [rw_pc EXCEPT ![r] = "r_loop"]
            /\ UNCHANGED can_write
    /\ rw_i' = [rw_i EXCEPT ![r] = @ + 1]
    /\ UNCHANGED <<num_writers, writer_waiting, write_mutex, can_read, products, rwrest>>

CatMonWriterLoop(w) == rw_impl = "monitor" /\ RWLoop(w, "sw_lock")

\* start_write: pthread_mutex_lock.
CatMonStartWriteLock(w) == rw_impl = "monitor" /\ RWLock(w, "sw_lock", "sw_cs")

\* start_write admitting a writer next to an active writer.
CatMonWriterMustWait_IgnoreWriters == num_readers > 0

\* start_write admitting a writer next to active readers.
CatMonWriterMustWait_IgnoreReaders == num_writers > 0

\* start_write, the condition of its while loop.
CatMonWriterMustWait == num_readers > 0 \/ num_writers > 0

\* start_write with the mutex held: writer_waiting++, then the while loop, up
\* to the wait or, past the loop, writer_waiting--; num_writers++; unlock.
CatMonStartWrite(w) ==
    /\ rw_impl = "monitor"
    /\ rw_pc[w] = "sw_cs"
    /\ rw_mutex = w
    /\ rw_mutex' = Free
    /\ IF CatMonWriterMustWait
       THEN /\ writer_waiting' = writer_waiting + 1
            /\ can_write' = can_write \cup {w}
            /\ rw_pc' = [rw_pc EXCEPT ![w] = "sw_wait"]
            /\ UNCHANGED num_writers
       ELSE /\ num_writers' = num_writers + 1
            /\ rw_pc' = [rw_pc EXCEPT ![w] = "writing"]
            /\ UNCHANGED <<writer_waiting, can_write>>
    /\ UNCHANGED <<num_readers, write_mutex, can_read, rw_i, products, rwrest>>

\* start_write: pthread_cond_wait returns, the mutex is taken again.
CatMonStartWriteRelock(w) ==
    rw_impl = "monitor" /\ RWLock(w, "sw_relock", "sw_recheck")

\* start_write, after a wake-up, forgetting writer_waiting--.
CatMonStartWriteRecheck_NoDecrement(w) ==
    /\ rw_impl = "monitor"
    /\ rw_pc[w] = "sw_recheck"
    /\ rw_mutex = w
    /\ rw_mutex' = Free
    /\ IF CatMonWriterMustWait
       THEN /\ can_write' = can_write \cup {w}
            /\ rw_pc' = [rw_pc EXCEPT ![w] = "sw_wait"]
            /\ UNCHANGED num_writers
       ELSE /\ num_writers' = num_writers + 1
            /\ rw_pc' = [rw_pc EXCEPT ![w] = "writing"]
            /\ UNCHANGED can_write
    /\ UNCHANGED <<num_readers, writer_waiting, write_mutex, can_read, rw_i,
                   products, rwrest>>

\* start_write after a wake-up: the while condition again, up to the next
\* wait or, past the loop, writer_waiting--; num_writers++; unlock.
CatMonStartWriteRecheck(w) ==
    /\ rw_impl = "monitor"
    /\ rw_pc[w] = "sw_recheck"
    /\ rw_mutex = w
    /\ rw_mutex' = Free
    /\ IF CatMonWriterMustWait
       THEN /\ can_write' = can_write \cup {w}
            /\ rw_pc' = [rw_pc EXCEPT ![w] = "sw_wait"]
            /\ UNCHANGED <<num_writers, writer_waiting>>
       ELSE /\ writer_waiting' = writer_waiting - 1
            /\ num_writers' = num_writers + 1
            /\ rw_pc' = [rw_pc EXCEPT ![w] = "writing"]
            /\ UNCHANGED can_write
    /\ UNCHANGED <<num_readers, write_mutex, can_read, rw_i, products, rwrest>>

\* writer: the update of the product; then end_write: pthread_mutex_lock.
\* The update section ends here.
CatMonEndWriteLock(w) ==
    /\ rw_impl = "monitor"
    /\ rw_pc[w] = "writing"
    /\ rw_mutex = Free
    /\ WriterUpdates
    /\ rw_mutex' = w
    /\ rw_pc' = [rw_pc EXCEPT ![w] = "ew_cs"]
    /\ UNCHANGED <<num_readers, num_writers, writer_waiting, write_mutex,
                   can_read, can_write, rw_i, rwrest>>

\* end_write with the mutex held: num_writers--; a waiting writer is
\* signalled, otherwise can_read is broadcast; back in writer, i++.
CatMonEndWrite(w) ==
    /\ rw_impl = "monitor"
    /\ rw_pc[w] = "ew_cs"
    /\ rw_mutex = w
    /\ rw_mutex' = Free
    /\ num_writers' = num_writers - 1
    /\ IF writer_waiting > 0
       THEN /\ \E x \in can_write \cup {Free} :
                 /\ Signalled(can_write, x)
                 /\ can_write' = can_write \ {x}
                 /\ rw_pc' = CatPcAfter(w, "w_loop", {x})
            /\ UNCHANGED can_read
       ELSE /\ can_read' = {}
            /\ rw_pc' = CatPcAfter(w, "w_loop", can_read)
            /\ UNCHANGED can_write
    /\ rw_i' = [rw_i EXCEPT ![w] = @ + 1]
    /\ UNCHANGED <<num_readers, writer_waiting, write_mutex, products, rwrest>>

CatMonReader(r) ==
    \/ CatMonReaderLoop(r)
    \/ CatMonStartReadLock(r)
    \/ CatMonStartRead(r)
    \/ CatMonEndReadLock(r)
    \/ CatMonEndRead(r)

CatMonWriter(w) ==
    \/ CatMonWriterLoop(w)
    \/ CatMonStartWriteLock(w)
    \/ CatMonStartWrite(w)
    \/ CatMonStartWriteRelock(w)
    \/ CatMonStartWriteRecheck(w)
    \/ CatMonEndWriteLock(w)
    \/ CatMonEndWrite(w)

----------------------------------------------------------------------------
(***************************************************************************)
(* ecommerce_mutex.c and ecommerce_sem.c: the same protocol, on two        *)
(* pthread mutexes (mutex, write_mutex) and on two binary semaphores       *)
(* (read_mutex, write_mutex).  The first reader takes write_mutex, the     *)
(* last reader gives it back, a writer holds it for its update.            *)
(*                                                                         *)
(* In ecommerce_mutex.c the last reader may not be the one that locked     *)
(* write_mutex.  POSIX leaves pthread_mutex_unlock by a thread that does   *)
(* not own a default mutex undefined: implementations either unlock it or  *)
(* fail with EPERM and leave it locked, and locking a mutex one already    *)
(* owns either blocks for ever or fails with EDEADLK.  The model takes     *)
(* every one of these outcomes.  A semaphore has no owner.                 *)
(***************************************************************************)
RPImpl == rw_impl \in {"mutex", "sem"}

CatReaderLoop(r) == RPImpl /\ RWLoop(r, "en_lock")

\* reader, entry: pthread_mutex_lock(&catalog.mutex) / sem_wait(&catalog.read_mutex)
CatReaderEnterLock(r) == RPImpl /\ RWLock(r, "en_lock", "en_cs")

\* reader, entry, with every reader taking write_mutex.
CatReaderEnter_AlwaysTakeWriteMutex(r) ==
    /\ RPImpl
    /\ rw_pc[r] = "en_cs"
    /\ rw_mutex = r
    /\ num_readers' = num_readers + 1
    /\ rw_pc' = [rw_pc EXCEPT ![r] = "en_wlock"]
    /\ UNCHANGED <<rw_mutex, num_writers, writer_waiting, write_mutex,
                   can_read, can_write, rw_i, products, rwrest>>

\* reader, entry: num_readers++; a reader that is not the first unlocks and
\* is inside its query section, the first one goes on to take write_mutex.
CatReaderEnter(r) ==
    /\ RPImpl
    /\ rw_pc[r] = "en_cs"
    /\ rw_mutex = r
    /\ num_readers' = num_readers + 1
    /\ IF num_readers + 1 = 1
       THEN /\ rw_pc' = [rw_pc EXCEPT ![r] = "en_wlock"]
            /\ UNCHANGED rw_mutex
       ELSE /\ rw_pc' = [rw_pc EXCEPT ![r] = "reading"]
            /\ rw_mutex' = Free
    /\ UNCHANGED <<num_writers, writer_waiting, write_mutex, can_read,
                   can_write, rw_i, products, rwrest>>

\* The lock of write_mutex by thread t returns: the mutex was free, or
\* (pthread mutex only) t owns it already and the call fails with EDEADLK.
WriteMutexAcquired(t) ==
    \/ write_mutex = Free /\ write_mutex' = t
    \/ rw_impl = "mutex" /\ write_mutex = t /\ write_mutex' = t

\* reader, entry, first reader: pthread_mutex_lock(&catalog.write_mutex) /
\* sem_wait(&catalog.write_mutex), then the unlock of mutex / read_mutex.
CatReaderEnterFirst(r) ==
    /\ RPImpl
    /\ rw_pc[r] = "en_wlock"
    /\ rw_mutex = r
    /\ WriteMutexAcquired(r)
    /\ rw_mutex' = Free
    /\ rw_pc' = [rw_pc EXCEPT ![r] = "reading"]
    /\ UNCHANGED <<num_readers, num_writers, writer_waiting, can_read,
                   can_write, rw_i, products, rwrest>>

\* reader, exit: pthread_mutex_lock(&catalog.mutex) / sem_wait(&catalog.read_mutex);
\* the query section ends here.
CatReaderLeaveLock(r) == RPImpl /\ RWLock(r, "reading", "ex_cs")

\* The unlock of write_mutex by thread t: sem_post always frees it;
\* pthread_mutex_unlock frees it for its owner and, for another thread,
\* either frees it or fails with EPERM and leaves it locked.
WriteMutexReleased(t) ==
    \/ write_mutex' = Free
    \/ rw_impl = "mutex" /\ write_mutex # t /\ write_mutex' = write_mutex

\* reader, exit, with every leaving reader unlocking write_mutex.
CatReaderLeave_AlwaysUnlock(r) ==
    /\ RPImpl
    /\ rw_pc[r] = "ex_cs"
    /\ rw_mutex = r
    /\ num_readers' = num_readers - 1
    /\ write_mutex' = Free
    /\ rw_mutex' = Free
    /\ rw_pc' = [rw_pc EXCEPT ![r] = "r_loop"]
    /\ rw_i' = [rw_i EXCEPT ![r] = @ + 1]
    /\ UNCHANGED <<num_writers, writer_waiting, can_read, can_write, products,
                   rwrest>>

\* reader, exit: num_readers--; the last reader unlocks write_mutex; unlock;
\* back in reader, i++.
CatReaderLeave(r) ==
    /\ RPImpl
    /\ rw_pc[r] = "ex_cs"
    /\ rw_mutex = r
    /\ num_readers' = num_readers - 1
    /\ IF num_readers - 1 = 0
       THEN WriteMutexReleased(r)
       ELSE UNCHANGED write_mutex
    /\ rw_mutex' = Free
    /\ rw_pc' = [rw_pc EXCEPT ![r] = "r_loop"]
    /\ rw_i' = [rw_i EXCEPT ![r] = @ + 1]
    /\ UNCHANGED <<num_writers, writer_waiting, can_read, can_write, products,
                   rwrest>>

CatWriterLoop(w) == RPImpl /\ RWLoop(w, "w_lock")

\* writer, entry, without waiting for write_mutex.
CatWriterEnter_NoWait(w) ==
    /\ RPImpl
    /\ rw_pc[w] = "w_lock"
    /\ write_mutex' = w
    /\ rw_pc' = [rw_pc EXCEPT ![w] = "writing"]
    /\ UNCHANGED <<num_readers, num_writers, writer_waiting, rw_mutex,
                   can_read, can_write, rw_i, products, rwrest>>

\* writer, entry: pthread_mutex_lock(&catalog.write_mutex) / sem_wait(&catalog.write_mutex)
CatWriterEnter(w) ==
    /\ RPImpl
    /\ rw_pc[w] = "w_lock"
    /\ write_mutex = Free
    /\ write_mutex' = w
    /\ rw_pc' = [rw_pc EXCEPT ![w] = "writing"]
    /\ UNCHANGED <<num_readers, num_writers, writer_waiting, rw_mutex,
                   can_read, can_write, rw_i, products, rwrest>>

\* writer: the update of the product; then the exit,
\* pthread_mutex_unlock(&catalog.write_mutex) / sem_post(&catalog.write_mutex);
\* back in writer, i++.
CatWriterLeave(w) ==
    /\ RPImpl
    /\ rw_pc[w] = "writing"
    /\ WriterUpdates
    /\ write_mutex' = Free
    /\ rw_pc' = [rw_pc EXCEPT ![w] = "w_loop"]
    /\ rw_i' = [rw_i EXCEPT ![w] = @ + 1]
    /\ UNCHANGED <<num_readers, num_writers, writer_waiting, rw_mutex,
                   can_read, can_write, rwrest>>

CatReader(r) ==
    \/ CatReaderLoop(r)
    \/ CatReaderEnterLock(r)
    \/ CatReaderEnter(r)
    \/ CatReaderEnterFirst(r)
    \/ CatReaderLeaveLock(r)
    \/ CatReaderLeave(r)

CatWriter(w) ==
    \/ CatWriterLoop(w)
    \/ CatWriterEnter(w)
    \/ CatWriterLeave(w)

----------------------------------------------------------------------------
(***************************************************************************)
(* Specifications.  Each program runs alone; the variables of the other    *)
(* programs rest at the values below.                                      *)
(***************************************************************************)
PQIdle ==
    /\ pq_impl = "none"
    /\ buffer = <<>>
    /\ count = 0
    /\ in = 0
    /\ out = 0
    /\ active_producers = 0
    /\ should_stop = 0
    /\ pq_mutex = Free
    /\ not_full = {}
    /\ not_empty = {}
    /\ pq_pc = <<>>
    /\ docs_produced = <<>>
    /\ doc = <<>>
    /\ main_pc = "none"
    /\ created = 0
    /\ pending = <<>>
    /\ inserted = {}
    /\ returned = {}

VSIdle ==
    /\ vs_impl = "none"
    /\ vs_state = <<>>
    /\ board_in_use = <<>>
    /\ vs_mutex = NoEditor
    /\ vs_pc = <<>>
    /\ edits = <<>>

VSSIdle ==
    /\ vss_state = <<>>
    /\ sem_editors = <<>>
    /\ vss_mutex = 0
    /\ boards = <<>>
    /\ vss_pc = <<>>
    /\ vss_edits = <<>>

PSIdle ==
    /\ empty = 0
    /\ full = 0
    /\ posted = 0

RWIdle ==
    /\ rw_impl = "none"
    /\ num_readers = 0
    /\ num_writers = 0
    /\ writer_waiting = 0
    /\ rw_mutex = Free
    /\ write_mutex = Free
    /\ can_read = {}
    /\ can_write = {}
    /\ rw_pc = <<>>
    /\ rw_i = <<>>
    /\ products = <<>>
    /\ rw_draws = {}

\* The initialisation is over, or was not looked at.
InitIdle ==
    /\ init_pc = "none"
    /\ init_k = 0
    /\ init_fail = 0
    /\ init_ret = 0
    /\ initialised = {}

PQMain == MainCreate \/ MainCreateFail \/ MainExit \/ MainJoin

PQInit ==
    /\ \E impl \in {"monitor", "mutex"} : PQInitFor(impl)
    /\ PSIdle /\ VSIdle /\ VSSIdle /\ RWIdle /\ InitIdle

PQNext ==
    \/ PQMain
    \/ \E p \in Producers : MonProducer(p) \/ MtxProducer(p)
    \/ \E c \in Consumers : MonConsumer(c) \/ MtxConsumer(c)
    \/ \E t \in PQThreads : PQSpuriousWakeup(t)

\* Both print queues, every interleaving.
SpecPQ == PQInit /\ [][PQNext]_vars

\* print_system_monitor.c alone, without the wake-ups POSIX allows but no
\* signal causes.
PQMonNext ==
    \/ PQMain
    \/ \E p \in Producers : MonProducer(p)
    \/ \E c \in Consumers : MonConsumer(c)

\* The scheduler runs every thread that can take a step; main, having failed
\* to create a thread, returns.  Whether pthread_create fails is not fair.
PQMonFairness ==
    /\ \A p \in Producers : WF_vars(MonProducer(p))
    /\ \A c \in Consumers : WF_vars(MonConsumer(c))
    /\ WF_vars(MainCreate)
    /\ WF_vars(MainExit)
    /\ WF_vars(MainJoin)

PQMonInit ==
    PQInitFor("monitor") /\ PSIdle /\ VSIdle /\ VSSIdle /\ RWIdle /\ InitIdle

FairSpecPQMon == PQMonInit /\ [][PQMonNext]_vars /\ PQMonFairness

\* print_system_mutex.c alone, in the same way: no wake-up without a signal,
\* every thread that can take a step is run.
PQMtxInit ==
    PQInitFor("mutex") /\ PSIdle /\ VSIdle /\ VSSIdle /\ RWIdle /\ InitIdle

PQMtxNext ==
    \/ PQMain
    \/ \E p \in Producers : MtxProducer(p)
    \/ \E c \in Consumers : MtxConsumer(c)

PQMtxFairness ==
    /\ \A p \in Producers : WF_vars(MtxProducer(p))
    /\ \A c \in Consumers : WF_vars(MtxConsumer(c))
    /\ WF_vars(MainCreate)
    /\ WF_vars(MainExit)
    /\ WF_vars(MainJoin)

FairSpecPQMtx == PQMtxInit /\ [][PQMtxNext]_vars /\ PQMtxFairness

\* Both video studios on mutex and condition variables, every interleaving.
VSInit ==
    /\ \E impl \in {"monitor", "mutex"} : VSInitFor(impl)
    /\ PQIdle /\ PSIdle /\ VSSIdle /\ RWIdle /\ InitIdle

VSNext ==
    \E e \in Editors : MonEditor(e) \/ MtxEditor(e) \/ VSSpuriousWakeup(e)

SpecVS == VSInit /\ [][VSNext]_vars

\* The same without the wake-ups POSIX allows but no signal causes, and with
\* a scheduler that runs every editor that can take a step.
VSFairNext == \E e \in Editors : MonEditor(e) \/ MtxEditor(e)

VSFairness == \A e \in Editors : WF_vars(MonEditor(e) \/ MtxEditor(e))

FairSpecVS == VSInit /\ [][VSFairNext]_vars /\ VSFairness

\* The editors repeating their cycle without bound: the for loop of editor
\* with its bound NUM_EDITS taken away (i is then of no use and stays 0).
VSLoopForever(e) ==
    /\ vs_pc[e] = "think"
    /\ vs_pc' = [vs_pc EXCEPT ![e] = "req_lock"]
    /\ edits' = [edits EXCEPT ![e] = 0]
    /\ UNCHANGED <<vs_state, board_in_use, vs_mutex, vsrest>>

\* One step of editor e in that program: the loop, or a step of its request
\* or release.
VSForeverEditor(e) ==
    \/ VSLoopForever(e)
    \/ vs_pc[e] # "think" /\ (MonEditor(e) \/ MtxEditor(e))

VSForeverNext == \E e \in Editors : VSForeverEditor(e)

\* Every editor that can take a step again and again takes one: a thread
\* waiting for the mutex gets it in the end, whoever else asks for it.  This
\* is more than weak fairness of the threads guarantees.
VSForeverFairness == \A e \in Editors : SF_vars(VSForeverEditor(e))

FairSpecVSForever == VSInit /\ [][VSForeverNext]_vars /\ VSForeverFairness

\* release_boards / put_boards called by an editor that holds no boards: the
\* editor is at the top of its loop and THINKING.  The functions take the
\* editor's id and nothing else, so the call runs like any release.
VSStrayReleaseLock(e) == VSLock(e, "think", "stray_cs")

VSStrayRelease(e) ==
    /\ vs_pc[e] = "stray_cs"
    /\ vs_mutex = e
    /\ LET s == IF vs_impl = "monitor" THEN MonRelease(Studio, e)
                                       ELSE MtxPut(Studio, e)
       IN  /\ vs_state' = s.state
           /\ board_in_use' = s.board
           /\ vs_pc' = VSPcAfter(e, "think", s.sig)
    /\ vs_mutex' = NoEditor
    /\ UNCHANGED <<edits, vsrest>>

\* Both video studios with such calls added.
VSStrayNext ==
    \/ VSNext
    \/ \E e \in Editors : VSStrayReleaseLock(e) \/ VSStrayRelease(e)

SpecVSStray == VSInit /\ [][VSStrayNext]_vars

\* The primitives init_print_queue (mutex version) and init_semaphores
\* (semaphore version) initialise, in the order of the calls.
InitPrimitives ==
    IF pq_impl = "mutex" THEN <<"mutex", "not_full", "not_empty">>
                         ELSE <<"empty", "full", "mutex", "print_mutex">>

\* The destroy calls in the branch taken when the k-th initialisation fails,
\* ignoring every primitive.
InitDestroyed_Nothing(k) == {}

\* The destroy calls in the branch taken when the k-th initialisation fails.
InitDestroyed(k) ==
    IF pq_impl = "mutex"
    THEN (IF k = 1 THEN {}
          ELSE IF k = 2 THEN {"mutex"}
          ELSE {"mutex", "not_full"})
    ELSE (IF k = 1 THEN {}
          ELSE IF k = 2 THEN {"empty"}
          ELSE IF k = 3 THEN {"empty", "full"}
          ELSE {"empty", "full", "mutex"})

\* The value returned by that branch: PRINT_ERR_MUTEX, PRINT_ERR_COND; -1.
InitError(k) ==
    IF pq_impl = "mutex" THEN (IF k = 1 THEN -1 ELSE -3) ELSE -1

\* The globals before main runs: as at the start of the program, main before
\* its call of the init function, the semaphores not initialised yet.
PQStartFor(impl) ==
    /\ pq_impl = impl
    /\ buffer = [i \in 0..(BUFFER_SIZE - 1) |-> 0]
    /\ count = 0
    /\ in = 0
    /\ out = 0
    /\ active_producers = 0
    /\ should_stop = 0
    /\ pq_mutex = Free
    /\ not_full = {}
    /\ not_empty = {}
    /\ pq_pc = [t \in PQThreads |->
                  IF t \in Producers
                  THEN (IF impl = "mutex" THEN "reg_lock" ELSE "p_loop")
                  ELSE "c_loop"]
    /\ docs_produced = [p \in Producers |-> 0]
    /\ doc = [c \in Consumers |-> NoDoc]
    /\ main_pc = "init"
    /\ created = 0
    /\ pending = <<>>
    /\ inserted = {}
    /\ returned = {}
    /\ empty = 0
    /\ full = 0
    /\ posted = 0
    /\ init_pc = "run"
    /\ init_k = 1
    /\ init_ret = 0
    /\ initialised = {}
    /\ init_fail \in 0..Len(InitPrimitives)

\* One pthread_mutex_init / pthread_cond_init / sem_init of the function with
\* its test: on failure the branch destroys and returns, else the next one.
\* sem_init gives empty the value BUFFER_SIZE and full the value 0.
InitPrimitive ==
    /\ init_pc = "run"
    /\ init_k <= Len(InitPrimitives)
    /\ IF init_fail = init_k
       THEN /\ initialised' = initialised \ InitDestroyed(init_k)
            /\ init_ret' = InitError(init_k)
            /\ init_pc' = "returned"
            /\ UNCHANGED <<init_k, empty>>
       ELSE /\ initialised' = initialised \cup {InitPrimitives[init_k]}
            /\ init_k' = init_k + 1
            /\ empty' = (IF InitPrimitives[init_k] = "empty" THEN BUFFER_SIZE
                                                            ELSE empty)
            /\ UNCHANGED <<init_ret, init_pc>>
    /\ UNCHANGED <<pqvars, full, posted, init_fail, vsvars, vssvars, rwvars>>

\* return PRINT_SUCCESS / return 0
InitSuccess ==
    /\ init_pc = "run"
    /\ init_k > Len(InitPrimitives)
    /\ init_ret' = 0
    /\ init_pc' = "returned"
    /\ UNCHANGED <<pqvars, psvars, init_k, init_fail, initialised, vsvars,
                   vssvars, rwvars>>

\* main: if (init_print_queue() != PRINT_SUCCESS) return EXIT_FAILURE;
\*       if (init_semaphores() != 0) return 1;
MainAfterInit ==
    /\ main_pc = "init"
    /\ init_pc = "returned"
    /\ main_pc' = (IF init_ret # 0 THEN "failed" ELSE "create")
    /\ init_pc' = "over"
    /\ UNCHANGED <<pq_impl, pqshared, created, pq_mutex, not_full, not_empty,
                   pq_pc, docs_produced, doc, pqhistory, psvars, init_k,
                   init_fail, init_ret, initialised, vsvars, vssvars, rwvars>>

\* The synchronisation of the catalog does not depend on the products: the
\* specifications about it run with one catalog and with the one draw that
\* leaves it as it is (price_change 0, stock_change 0, both in rand()'s
\* range).
CatalogFixed ==
    /\ products = [i \in ProductIndexes |-> [id |-> i + 1, price |-> 1000, stock |-> 0]]
    /\ rw_draws = {<<0, 0, 0>>}

\* The three catalogs, every interleaving.
RWInit ==
    /\ \E impl \in {"monitor", "mutex", "sem"} : RWInitFor(impl)
    /\ CatalogFixed
    /\ PQIdle /\ PSIdle /\ VSIdle /\ VSSIdle /\ InitIdle

RWNext ==
    \/ \E r \in Readers : CatMonReader(r) \/ CatReader(r)
    \/ \E w \in Writers : CatMonWriter(w) \/ CatWriter(w)
    \/ \E t \in RWThreads : CatSpuriousWakeup(t)

SpecRW == RWInit /\ [][RWNext]_vars

\* The products under the writers' updates, in the three catalogs: every
\* initial catalog and every draw.  The writers run with the first
\* CATALOG_READERS readers; the other readers, which never write a product,
\* are not scheduled before the writers are through.
CATALOG_READERS == 1

CatalogInit ==
    /\ \E impl \in {"monitor", "mutex", "sem"} : RWInitFor(impl)
    /\ products \in InitialCatalogs
    /\ rw_draws = Draws
    /\ PQIdle /\ PSIdle /\ VSIdle /\ VSSIdle /\ InitIdle

CatalogNext ==
    \/ \E r \in 1..CATALOG_READERS : CatMonReader(r) \/ CatReader(r)
    \/ \E w \in Writers : CatMonWriter(w) \/ CatWriter(w)

SpecCatalog == CatalogInit /\ [][CatalogNext]_vars

\* The mutex and the semaphore catalog under sustained read load: the
\* readers repeat without bound (the for loop of reader with its bound
\* NUM_READS taken away; i is then of no use and stays 0), and the scheduler
\* lets a reader start its exit protocol only while another reader is
\* counted in num_readers, so that the query sections keep overlapping.
\* Every step is a step of the program.
CatReaderLoopForever(r) ==
    /\ RPImpl
    /\ rw_pc[r] = "r_loop"
    /\ rw_pc' = [rw_pc EXCEPT ![r] = "en_lock"]
    /\ rw_i' = [rw_i EXCEPT ![r] = 0]
    /\ UNCHANGED <<num_readers, num_writers, writer_waiting, rw_mutex,
                   write_mutex, can_read, can_write, products, rwrest>>

OverlapReader(r) ==
    \/ CatReaderLoopForever(r)
    \/ CatReaderEnterLock(r)
    \/ CatReaderEnter(r)
    \/ CatReaderEnterFirst(r)
    \/ num_readers > 1 /\ CatReaderLeaveLock(r)
    \/ CatReaderLeave(r)

RWOverlapInit ==
    /\ \E impl \in {"mutex", "sem"} : RWInitFor(impl)
    /\ CatalogFixed
    /\ PQIdle /\ PSIdle /\ VSIdle /\ VSSIdle /\ InitIdle

RWOverlapNext ==
    \/ \E r \in Readers : OverlapReader(r)
    \/ \E w \in Writers : CatWriter(w)

\* Weak fairness of every thread.  A reader kept in its query section by the
\* scheduler above is not treated unfairly: its next step, the lock of mutex
\* / read_mutex, is disabled again and again while the other readers hold
\* that lock to enter.
RWOverlapFairness ==
    /\ \A r \in Readers : WF_vars(OverlapReader(r))
    /\ \A w \in Writers : WF_vars(CatWriter(w))

FairSpecRWOverlap == RWOverlapInit /\ [][RWOverlapNext]_vars /\ RWOverlapFairness

\* The monitor catalog alone.
RWMonInit ==
    /\ RWInitFor("monitor")
    /\ CatalogFixed
    /\ PQIdle /\ PSIdle /\ VSIdle /\ VSSIdle /\ InitIdle

RWMonNext ==
    \/ \E r \in Readers : CatMonReader(r)
    \/ \E w \in Writers : CatMonWriter(w)

\* The monitor catalog without the wake-ups no signal causes, and with a
\* scheduler that does not stop while some thread can take a step.  Weak
\* fairness of every single thread implies this, so what holds here holds
\* under weak fairness of the threads.
RWMonFairness == WF_vars(RWMonNext)

FairSpecRWMon == RWMonInit /\ [][RWMonNext]_vars /\ RWMonFairness

\* end_write called a second time by a writer back from its own end_write,
\* with no writer active, and end_read called a second time by a reader, with
\* no reader active.  The functions take no argument and run as always.  Such
\* calls are made while the counters are not negative yet.  One reader makes
\* them for all: the readers run the same code.
StrayAllowed(t) ==
    /\ t \in Writers \cup {1}
    /\ rw_i[t] > 0
    /\ num_writers >= 0
    /\ num_readers >= 0

CatMonStrayEndWriteLock(w) ==
    StrayAllowed(w) /\ num_writers = 0 /\ RWLock(w, "w_loop", "stray_ew")

CatMonStrayEndWrite(w) ==
    /\ rw_pc[w] = "stray_ew"
    /\ rw_mutex = w
    /\ rw_mutex' = Free
    /\ num_writers' = num_writers - 1
    /\ IF writer_waiting > 0
       THEN /\ \E x \in can_write \cup {Free} :
                 /\ Signalled(can_write, x)
                 /\ can_write' = can_write \ {x}
                 /\ rw_pc' = CatPcAfter(w, "w_loop", {x})
            /\ UNCHANGED can_read
       ELSE /\ can_read' = {}
            /\ rw_pc' = CatPcAfter(w, "w_loop", can_read)
            /\ UNCHANGED can_write
    /\ UNCHANGED <<num_readers, writer_waiting, write_mutex, rw_i, products, rwrest>>

CatMonStrayEndReadLock(r) ==
    StrayAllowed(r) /\ num_readers = 0 /\ RWLock(r, "r_loop", "stray_er")

CatMonStrayEndRead(r) ==
    /\ rw_pc[r] = "stray_er"
    /\ rw_mutex = r
    /\ rw_mutex' = Free
    /\ num_readers' = num_readers - 1
    /\ rw_pc' = [rw_pc EXCEPT ![r] = "r_loop"]
    /\ UNCHANGED <<num_writers, writer_waiting, write_mutex, can_read,
                   can_write, rw_i, products, rwrest>>

\* The monitor catalog with such calls added.
RWMonStrayNext ==
    \/ RWMonNext
    \/ \E w \in Writers : CatMonStrayEndWriteLock(w) \/ CatMonStrayEndWrite(w)
    \/ \E r \in Readers : CatMonStrayEndReadLock(r) \/ CatMonStrayEndRead(r)

SpecRWMonStray == RWMonInit /\ [][RWMonStrayNext]_vars

\* print_system_sem.c, every interleaving.
SemPQInit == SemPQInitQueue /\ VSIdle /\ VSSIdle /\ RWIdle /\ InitIdle

SemPQNext ==
    \/ SemMain
    \/ \E p \in Producers : SemProducer(p)
    \/ \E c \in Consumers : SemConsumer(c)

SpecPQSem == SemPQInit /\ [][SemPQNext]_vars

\* print_system_mutex.c and print_system_sem.c from the first line of main.
PQStartInit ==
    /\ \E impl \in {"mutex", "sem"} : PQStartFor(impl)
    /\ VSIdle /\ VSSIdle /\ RWIdle

PQStartNext ==
    \/ InitPrimitive
    \/ InitSuccess
    \/ MainAfterInit
    \/ pq_impl = "mutex" /\ PQMain
    \/ \E p \in Producers : MtxProducer(p)
    \/ \E c \in Consumers : MtxConsumer(c)
    \/ \E t \in PQThreads : pq_impl = "mutex" /\ PQSpuriousWakeup(t)
    \/ pq_impl = "sem" /\ SemPQNext

SpecPQStart == PQStartInit /\ [][PQStartNext]_vars

\* The video studio on semaphores, every interleaving.
VSSNext == \E e \in Editors : SemEditor(e)

VSSInit == SemInitStudio /\ PQIdle /\ PSIdle /\ VSIdle /\ RWIdle /\ InitIdle

SpecVSS == VSSInit /\ [][VSSNext]_vars

\* The same with a scheduler that runs every editor that can take a step.
VSSFairness == \A e \in Editors : WF_vars(SemEditor(e))

FairSpecVSS == VSSInit /\ [][VSSNext]_vars /\ VSSFairness

----------------------------------------------------------------------------
(***************************************************************************)
(* Print queue: properties.                                                *)
(***************************************************************************)
\* monitor_remove / the mutex consumer returned a document to consumer c in this step.
Removed(c) == pq_pc[c] = "rm_cs" /\ pq_pc'[c] = "c_loop"

\* monitor_remove returned 0 to consumer c in this step.
ReturnedZero(c) == pq_pc[c] = "rm_cs" /\ pq_pc'[c] = "c_ret0"

\* C1: in the monitor and the mutex print queue, whatever the interleaving of
\* the producers and consumers, 0 <= count <= BUFFER_SIZE in every reachable
\* state: no insert runs on a full queue and no removal on an empty one.
C1_CountWithinCapacity == count \in 0..BUFFER_SIZE

\* C1, its case: the queue is full and a producer is blocked on not_full.
C1_Witness == count = BUFFER_SIZE /\ not_full # {}

\* C2: in the monitor print queue every document monitor_remove returns was
\* stored by monitor_insert before, was not returned before, and is the oldest
\* stored document not yet returned (documents leave in the order of their
\* inserts); so two consumers never get the same slot's document.
C2_RemoveIsFifo ==
    [][\A c \in Consumers :
         (pq_impl = "monitor" /\ Removed(c)) =>
            /\ doc'[c] \in inserted
            /\ doc'[c] \notin returned
            /\ pending # <<>>
            /\ doc'[c] = Head(pending)]_vars

\* C2, its case: both consumers hold a document at the same time, the queue
\* having wrapped around.
C2_Witness ==
    /\ pq_impl = "monitor"
    /\ \A c \in Consumers : doc[c] # NoDoc
    /\ Cardinality(returned) > BUFFER_SIZE

\* Producer p is the only thread that has inserted, nothing has been removed
\* and the queue is open.
Alone(p) ==
    /\ pq_impl = "monitor"
    /\ should_stop = 0
    /\ returned = {}
    /\ inserted \subseteq {DocId(p, n) : n \in 0..(MAX_DOCUMENTS - 1)}

\* C3, the steps: with N = BUFFER_SIZE and no consumer having removed
\* anything, the first N monitor_insert calls of one producer store without
\* blocking and its call N + 1 blocks; a monitor_remove that then runs returns
\* the first document inserted.
C3_Steps ==
    \A p \in Producers :
        /\ (Alone(p) /\ pq_pc[p] = "ins_cs" /\ pq_pc'[p] # "ins_cs") =>
              IF docs_produced[p] < BUFFER_SIZE
              THEN pq_pc'[p] = "p_loop" /\ count' = docs_produced[p] + 1
              ELSE pq_pc'[p] = "ins_wait" /\ count' = count
        /\ \A c \in Consumers :
              (Alone(p) /\ count = BUFFER_SIZE /\ Removed(c)) =>
                  doc'[c] = DocId(p, 0)

\* C3: the steps above, and under weak fairness a monitor_insert blocked on a
\* full queue completes (or the process has ended because main could not
\* create a thread).
C3_BlockedInsertCompletes ==
    /\ [][C3_Steps]_vars
    /\ \A p \in Producers : \A k \in 0..(MAX_DOCUMENTS - 1) :
          (pq_pc[p] = "ins_wait" /\ docs_produced[p] = k)
              ~> (docs_produced[p] = k + 1 \/ main_pc = "exited")

\* C3, its case: one producer has filled the queue alone and is blocked in
\* its insert N + 1.
C3_Witness ==
    \E p \in Producers :
        /\ Alone(p)
        /\ p \in not_full
        /\ docs_produced[p] = BUFFER_SIZE
        /\ count = BUFFER_SIZE

\* C4: monitor_remove returns 0 only when count = 0 and should_stop is set or
\* no producer is active, and then leaves count, in and out alone; with
\* count > 0 when it proceeds it returns 1, yields buffer[out], advances out by
\* one modulo BUFFER_SIZE and decrements count by one.
C4_RemoveReturn ==
    [][\A c \in Consumers :
         (pq_impl = "monitor" /\ pq_pc[c] = "rm_cs" /\ pq_pc'[c] # "rm_cs") =>
            /\ ReturnedZero(c) =>
                  /\ count = 0
                  /\ (should_stop = 1 \/ active_producers = 0)
                  /\ UNCHANGED <<count, in, out>>
            /\ count > 0 =>
                  /\ Removed(c)
                  /\ doc'[c] = buffer[out]
                  /\ out' = (out + 1) % BUFFER_SIZE
                  /\ count' = count - 1]_vars

\* C4, its case: monitor_remove has returned 0 on the closed, empty queue
\* after documents were removed from it.
C4_Witness ==
    /\ pq_impl = "monitor"
    /\ should_stop = 1
    /\ returned # {}
    /\ \E c \in Consumers : pq_pc[c] = "c_ret0"

----------------------------------------------------------------------------
(***************************************************************************)
(* Video studio: properties.                                               *)
(***************************************************************************)
\* The editors whose state is EDITING and who need board b.
UsersOf(b) ==
    {e \in Editors : vs_state[e] = "EDITING" /\ (b = e \/ b = (e + 1) % NUM_BOARDS)}

\* C5: in the monitor and the mutex video studio, in every reachable state,
\* each board is in use by at most one editor, an EDITING editor has both its
\* board flags set, and no two editors next to each other on the ring are
\* EDITING at once.
C5_BoardsExclusive ==
    /\ \A b \in Boards : Cardinality(UsersOf(b)) <= 1
    /\ \A e \in Editors :
          vs_state[e] = "EDITING" =>
              /\ board_in_use[e] = 1
              /\ board_in_use[(e + 1) % NUM_BOARDS] = 1
              /\ vs_state[RightOf(e)] # "EDITING"
              /\ vs_state[LeftOf(e)] # "EDITING"

\* C5, its case: two editors are EDITING at once while a neighbour of both
\* is HUNGRY.
C5_Witness ==
    \E e \in Editors :
        /\ vs_state[e] = "EDITING"
        /\ vs_state[RightOf(e)] = "HUNGRY"
        /\ vs_state[RightOf(RightOf(e))] = "EDITING"

\* An editor blocked in the pthread_cond_wait of its request.
BlockedHungry(e) == vs_pc[e] = "req_wait" /\ vs_state[e] = "HUNGRY"

Unfinished == {e \in Editors : vs_pc[e] # "done"}

\* C6: in the monitor and the mutex video studio, when all 5 editors have
\* requested their boards at least one of them is EDITING, and in no reachable
\* state is every unfinished editor blocked HUNGRY with no editor EDITING.
C6_NoDeadlock ==
    /\ (\A e \in Editors : vs_state[e] # "THINKING") =>
           (\E e \in Editors : vs_state[e] = "EDITING")
    /\ ~ /\ Unfinished # {}
         /\ \A e \in Unfinished : BlockedHungry(e)
         /\ \A e \in Editors : vs_state[e] # "EDITING"

\* C6, its case: all 5 editors have requested; those that did not get their
\* boards are blocked.
C6_Witness ==
    /\ \A e \in Editors : vs_state[e] # "THINKING"
    /\ \A e \in Editors : vs_state[e] = "HUNGRY" => BlockedHungry(e)

\* C9: in the monitor and the mutex harness (5 editors, NUM_EDITS rounds
\* each), under weak fairness of every editor thread, an editor that is HUNGRY
\* is EDITING later, and every editor completes its NUM_EDITS edits.
C9_EveryEditorServed ==
    /\ \A e \in Editors : (vs_state[e] = "HUNGRY") ~> (vs_state[e] = "EDITING")
    /\ <>(\A e \in Editors : vs_pc[e] = "done" /\ edits[e] = NUM_EDITS)

\* C9, its case: an editor blocked HUNGRY in its last round while both its
\* neighbours are EDITING.
C9_Witness ==
    \E e \in Editors :
        /\ BlockedHungry(e)
        /\ edits[e] = NUM_EDITS - 1
        /\ vs_state[LeftOf(e)] = "EDITING"
        /\ vs_state[RightOf(e)] = "EDITING"

\* Editor e ran the critical section of its request / of its release in this step.
Requests(e) == vs_pc[e] = "req_cs" /\ vs_pc'[e] # "req_cs"

Releases(e) == vs_pc[e] = "rel_cs" /\ vs_pc'[e] # "rel_cs"

\* The part of the ring scenario the code and the claim agree on: editors 0
\* and 2, requesting with their boards free, both become EDITING (at the same
\* time, see C10_Witness); editor 1 requesting then stays HUNGRY and blocks.
C10_Common ==
    /\ \A e \in {0, 2} :
          (Requests(e) /\ board_in_use[e] = 0 /\ board_in_use[e + 1] = 0) =>
              (vs_state'[e] = "EDITING" /\ vs_pc'[e] = "edit")
    /\ (Requests(1) /\ vs_state[0] = "EDITING" /\ vs_state[2] = "EDITING") =>
          (vs_state'[1] = "HUNGRY" /\ vs_pc'[1] = "req_wait")

\* C10 as claimed: ... and when editor 0 then releases its boards, editor 2
\* still EDITING, editor 1 becomes eligible and proceeds to EDITING.
C10_AsClaimed ==
    [][/\ C10_Common
       /\ (Releases(0) /\ vs_state[2] = "EDITING" /\ vs_state[1] = "HUNGRY") =>
             vs_state'[1] = "EDITING"]_vars

\* C10 as amended: ... when editor 0 releases its boards while editor 2 is
\* still EDITING, editor 1 stays HUNGRY (board 2 is still in use); editor 1
\* becomes EDITING, and is woken, at the release by editor 0 or editor 2 that
\* finds the other of the two not EDITING.
C10_Amended ==
    [][/\ C10_Common
       /\ (Releases(0) /\ vs_state[2] = "EDITING" /\ vs_state[1] = "HUNGRY") =>
             (vs_state'[1] = "HUNGRY" /\ vs_pc'[1] = vs_pc[1])
       /\ (Releases(2) /\ vs_state[0] = "EDITING" /\ vs_state[1] = "HUNGRY") =>
             (vs_state'[1] = "HUNGRY" /\ vs_pc'[1] = vs_pc[1])
       /\ \A e \in {0, 2} :
             (Releases(e) /\ vs_state[2 - e] # "EDITING" /\ vs_state[1] = "HUNGRY") =>
                 /\ vs_state'[1] = "EDITING"
                 /\ vs_pc[1] = "req_wait" => vs_pc'[1] = "req_relock"]_vars

\* C10, its case: editors 0 and 2 are EDITING, editor 1 is blocked HUNGRY and
\* editor 0 is in its release.
C10_Witness ==
    /\ vs_state[0] = "EDITING"
    /\ vs_state[2] = "EDITING"
    /\ BlockedHungry(1)
    /\ vs_pc[0] = "rel_cs"

----------------------------------------------------------------------------
(***************************************************************************)
(* Video studio on semaphores: properties.                                 *)
(***************************************************************************)
\* C7: in the semaphore video studio test_editor grants EDITING to an editor
\* only if neither of its two ring neighbours is EDITING, so no two editors
\* next to each other on the ring are ever EDITING at once.
C7_GrantNeedsBothNeighbours ==
    [][/\ \A e \in Editors :
            (vss_state[e] # "EDITING" /\ vss_state'[e] = "EDITING") =>
                /\ vss_state[LeftOf(e)] # "EDITING"
                /\ vss_state[RightOf(e)] # "EDITING"
       /\ \A e \in Editors :
            ~(vss_state'[e] = "EDITING" /\ vss_state'[RightOf(e)] = "EDITING")]_vars

\* C8: in the semaphore video studio no reachable state has an editor holding
\* exactly one of its two board semaphores while blocked waiting for the other.
C8_NoPartialHold ==
    \A e \in Editors :
        ~(vss_pc[e] = "wait_right" /\ boards[(e + 1) % NUM_BOARDS] = 0)

----------------------------------------------------------------------------
(***************************************************************************)
(* Print queue on semaphores: properties.                                  *)
(***************************************************************************)
\* Consumer c took a document out of the buffer in this step.
SemTook(c) == pq_impl = "sem" /\ pq_pc[c] = "rm_cs" /\ pq_pc'[c] = "post_empty"

\* C18: in the semaphore print queue, over the whole run, the shutdown in
\* which main posts full once per consumer included, every document a
\* consumer takes to print was inserted by a producer and was not taken by
\* any consumer before.
C18_NoPhantomNoDuplicate ==
    [][\A c \in Consumers :
          SemTook(c) => (doc'[c] \in inserted /\ doc'[c] \notin returned)]_vars

\* C19: in the semaphore print queue, when main has joined the consumers
\* (they exited after should_stop was set), every document a producer
\* inserted has been taken by a consumer: none is left in the buffer.
C19_NothingLeftBehind ==
    (pq_impl = "sem" /\ main_pc = "finished") => pending = <<>>

----------------------------------------------------------------------------
(***************************************************************************)
(* Print queue: shutdown, ring indices, consumer exit.                     *)
(***************************************************************************)
\* Thread t is blocked in the pthread_cond_wait of monitor_insert / monitor_remove.
BlockedInMonitor(t) == pq_pc[t] \in {"ins_wait", "rm_wait"}

\* C16: in the monitor print queue, once should_stop is 1 every thread blocked
\* inside monitor_insert or monitor_remove is woken later on: none stays
\* blocked forever.
C16_ClosureWakesAll ==
    \A t \in PQThreads :
        (should_stop = 1 /\ BlockedInMonitor(t)) ~> ~BlockedInMonitor(t)

\* (in - out) mod BUFFER_SIZE
RingDistance == (in - out + BUFFER_SIZE) % BUFFER_SIZE

\* C17 as claimed: in the monitor and the mutex print queue, whenever the
\* queue's mutex is free, count == (in - out) mod BUFFER_SIZE.
C17_AsClaimed == pq_mutex = Free => count = RingDistance

\* C17 as amended: in the monitor and the mutex print queue, whenever the
\* queue's mutex is free, count is congruent to in - out modulo BUFFER_SIZE:
\* count == (in - out) mod BUFFER_SIZE while the buffer is not full, and
\* in == out when count == BUFFER_SIZE.
C17_Amended ==
    pq_mutex = Free =>
        /\ count \in 0..BUFFER_SIZE
        /\ IF count = BUFFER_SIZE THEN in = out ELSE count = RingDistance

\* C17, its case: the buffer is full after the indices have wrapped around,
\* and the mutex is free.
C17_Witness ==
    /\ pq_mutex = Free
    /\ count = BUFFER_SIZE
    /\ in = out
    /\ in # 0

\* C20: in the mutex print queue, a consumer that has returned (should_stop
\* not set) finds every producer finished with its MAX_DOCUMENTS insertions
\* and the buffer empty, whatever the order in which the threads first run.
C20_ConsumerExitsLast ==
    \A c \in Consumers :
        (pq_impl = "mutex" /\ should_stop = 0 /\ pq_pc[c] = "done") =>
            /\ \A p \in Producers : docs_produced[p] = MAX_DOCUMENTS
            /\ count = 0

----------------------------------------------------------------------------
(***************************************************************************)
(* Product catalog: who is inside.                                         *)
(***************************************************************************)
InQuery(r) == rw_pc[r] = "reading"
InUpdate(w) == rw_pc[w] = "writing"
ReadersInQuery == {r \in Readers : InQuery(r)}
WritersInUpdate == {w \in Writers : InUpdate(w)}

\* C11 (ecommerce_monitor.c): num_writers is 0 or 1; while it is 1,
\* num_readers is 0; while num_readers is positive, num_writers is 0.  The
\* counters also count the threads inside: num_writers the writers in their
\* update section, num_readers at least the readers in their query section.
C11_MonitorExclusion ==
    rw_impl = "monitor" =>
        /\ num_writers \in {0, 1}
        /\ num_writers = 1 => num_readers = 0
        /\ num_readers > 0 => num_writers = 0
        /\ Cardinality({w \in Writers : rw_pc[w] \in {"writing", "ew_cs"}}) = num_writers
        /\ Cardinality({r \in Readers : rw_pc[r] \in {"reading", "er_cs"}}) = num_readers

\* A writer is active while the other writer and a reader wait for it.
C11_Witness ==
    /\ rw_impl = "monitor"
    /\ num_writers = 1
    /\ writer_waiting = 1
    /\ can_read # {}

\* C12 (ecommerce_mutex.c, ecommerce_sem.c): at most one writer is inside
\* its update section, and no reader is inside its query section while a
\* writer is inside its update section.
C12_WriterExcludesAll ==
    RPImpl =>
        /\ Cardinality(WritersInUpdate) <= 1
        /\ WritersInUpdate # {} => ReadersInQuery = {}

\* A writer is updating while the other writer and the first reader are
\* blocked on write_mutex.
C12_Witness ==
    /\ RPImpl
    /\ \E w \in Writers : InUpdate(w)
    /\ \E w \in Writers : rw_pc[w] = "w_lock"
    /\ \E r \in Readers : rw_pc[r] = "en_wlock"

\* C13 (all three catalogs): all NUM_READERS readers can be inside their
\* query sections together with no writer active; whenever they are, the
\* reader count is NUM_READERS and no writer is updating.
C13_AllReadersTogether ==
    ReadersInQuery = Readers =>
        /\ num_readers = NUM_READERS
        /\ WritersInUpdate = {}
        /\ rw_impl = "monitor" => num_writers = 0

\* All readers are reading at once.
C13_Witness == ReadersInQuery = Readers /\ WritersInUpdate = {}

C13_WitnessMonitor == rw_impl = "monitor" /\ C13_Witness
C13_WitnessMutex == rw_impl = "mutex" /\ C13_Witness
C13_WitnessSem == rw_impl = "sem" /\ C13_Witness

\* A writer that incremented writer_waiting and is not yet the active writer.
WriterWaits(w) == rw_pc[w] \in {"sw_wait", "sw_relock", "sw_recheck"}

\* C14 (ecommerce_monitor.c, writer preference): while a writer has
\* incremented writer_waiting and has not become the active writer, no reader
\* completes start_read.
C14_WriterPreference ==
    [][\A r \in Readers :
          (/\ rw_impl = "monitor"
           /\ \E w \in Writers : WriterWaits(w)
           /\ ~InQuery(r))
          => ~InQuery(r)']_vars

\* Readers are active, a writer waits for them, and a reader that came
\* after the writer waits on can_read.
C14_Witness ==
    /\ rw_impl = "monitor"
    /\ num_readers > 0
    /\ \E w \in Writers : rw_pc[w] = "sw_wait"
    /\ can_read # {}

\* A writer blocked on write_mutex.
WriterBlocked(w) == rw_pc[w] = "w_lock" /\ write_mutex # Free

\* C15 (ecommerce_mutex.c, ecommerce_sem.c, reader preference): while a
\* reader is active and a writer is blocked on write_mutex, a reader that
\* arrives and increments num_readers is inside its query section at once,
\* and no thread holds mutex / read_mutex while blocked on write_mutex.
C15_ReaderPreference ==
    [][\A r \in Readers :
          (/\ RPImpl
           /\ \E a \in Readers : InQuery(a)
           /\ \E w \in Writers : WriterBlocked(w))
          => /\ (rw_pc[r] = "en_cs" /\ rw_pc'[r] # "en_cs") => InQuery(r)'
             /\ rw_pc[r] # "en_wlock"]_vars

\* Two readers read while a writer is blocked on write_mutex, which the
\* readers hold.
C15_Witness ==
    /\ RPImpl
    /\ num_readers >= 2
    /\ Cardinality(ReadersInQuery) >= 2
    /\ write_mutex \in Readers
    /\ \E w \in Writers : WriterBlocked(w)

----------------------------------------------------------------------------
(***************************************************************************)
(* Monitor print queue: which accesses hold the mutex.                     *)
(***************************************************************************)
\* The program counters at which a thread evaluates a condition on the
\* shared fields outside monitor_insert / monitor_remove: the loop tests of
\* producer and consumer and the consumer's test of active_producers.
ReadsShared(t) ==
    /\ pq_pc[t] \in {"p_loop", "c_loop", "c_ret0"}
    /\ pq_pc'[t] # pq_pc[t]

\* C23: in the monitor print queue every read and every write of count, in,
\* out, active_producers and should_stop, by a producer, a consumer or main,
\* is made by a thread that holds the monitor mutex (main never holds it).
C23_SharedFieldsUnderMutex ==
    [][pq_impl = "monitor" =>
          /\ \A t \in PQThreads : ReadsShared(t) => pq_mutex = t
          /\ <<count, in, out, active_producers, should_stop>>' #
                <<count, in, out, active_producers, should_stop>>
             => (pq_mutex \in PQThreads /\ main_pc' = main_pc)]_vars

----------------------------------------------------------------------------
(***************************************************************************)
(* Video studio on semaphores: progress.                                   *)
(***************************************************************************)
\* Editor e is in a sem_wait that cannot return: on mutex, on its
\* sem_editors or on one of its two boards.
SemBlocked(e) ==
    \/ vss_pc[e] \in {"get_mutex", "edit"} /\ vss_mutex = 0
    \/ vss_pc[e] = "wait_editor" /\ sem_editors[e] = 0
    \/ vss_pc[e] = "wait_left" /\ boards[e] = 0
    \/ vss_pc[e] = "wait_right" /\ boards[(e + 1) % NUM_BOARDS] = 0

SemUnfinished == {e \in Editors : vss_pc[e] # "done"}

\* C22: in the semaphore video studio no reachable state has every
\* unfinished editor blocked on a semaphore, and with every editor scheduled
\* fairly all editors complete their NUM_EDITS edits.
C22_SemStudioProgress ==
    /\ [](SemUnfinished # {} => \E e \in SemUnfinished : ~SemBlocked(e))
    /\ <>(\A e \in Editors : vss_pc[e] = "done" /\ vss_edits[e] = NUM_EDITS)

\* All editors but one are blocked on semaphores, one of them holding its
\* left board while it waits for the right one.
C22_Witness ==
    /\ Cardinality({e \in Editors : SemBlocked(e)}) = NUM_EDITORS - 1
    /\ \E e \in Editors : vss_pc[e] = "wait_right" /\ SemBlocked(e)

----------------------------------------------------------------------------
(***************************************************************************)
(* Video studio on mutex and condition variables: editors that never stop. *)
(***************************************************************************)
\* C21: in the monitor and the mutex video studio, with editors repeating
\* think / request / edit / release without bound and every thread scheduled
\* with weak fairness, every editor that becomes HUNGRY eventually becomes
\* EDITING.
C21_NoStarvation ==
    \A e \in Editors : (vs_state[e] = "HUNGRY") ~> (vs_state[e] = "EDITING")

----------------------------------------------------------------------------
(***************************************************************************)
(* Video studio on mutex and condition variables: the effect of a release  *)
(* and the life cycle of an editor.                                        *)
(***************************************************************************)
\* The neighbour n of a releasing editor e is granted by the release: it is
\* HUNGRY and the board it does not share with e is free (the shared one is
\* freed by the release).
GrantedBy(e, n) ==
    /\ vs_state[n] = "HUNGRY"
    /\ IF n = LeftOf(e) THEN board_in_use[n] = 0
                        ELSE board_in_use[(n + 1) % NUM_BOARDS] = 0

\* The boards of the neighbours of e that the release by e grants.
GrantedBoards(e) ==
    UNION {{n, (n + 1) % NUM_BOARDS} : n \in {x \in {LeftOf(e), RightOf(e)} : GrantedBy(e, x)}}

\* C27: in the monitor and the mutex video studio the release by editor i,
\* in one critical section, frees boards i and (i+1) mod N, makes editor i
\* THINKING and re-evaluates exactly editors (i-1) mod N and (i+1) mod N: each
\* of them that is HUNGRY with both its boards then free becomes EDITING, takes
\* its two boards and is woken; every other editor and every other board is
\* as before.
C27_ReleaseEffect ==
    [][\A e \in Editors : Releases(e) =>
          /\ vs_state'[e] = "THINKING"
          /\ \A n \in {LeftOf(e), RightOf(e)} :
                IF GrantedBy(e, n)
                THEN /\ vs_state'[n] = "EDITING"
                     /\ vs_pc[n] = "req_wait" => vs_pc'[n] = "req_relock"
                ELSE /\ vs_state'[n] = vs_state[n]
                     /\ vs_pc'[n] = vs_pc[n]
          /\ \A x \in Editors \ {e, LeftOf(e), RightOf(e)} :
                vs_state'[x] = vs_state[x] /\ vs_pc'[x] = vs_pc[x]
          /\ \A b \in Boards :
                board_in_use'[b] =
                    IF b \in GrantedBoards(e) THEN 1
                    ELSE IF b \in {e, (e + 1) % NUM_BOARDS} THEN 0
                    ELSE board_in_use[b]]_vars

\* An editor that a neighbour's release made EDITING and woke has yet to take
\* the mutex again.
C27_Witness ==
    \E e \in Editors :
        /\ vs_pc[e] = "req_relock"
        /\ vs_state[e] = "EDITING"
        /\ board_in_use[e] = 1
        /\ board_in_use[(e + 1) % NUM_BOARDS] = 1

\* C28: in the monitor and the mutex video studio an editor's state changes
\* only along THINKING -> HUNGRY -> EDITING -> THINKING (a request that is
\* granted at once passes through HUNGRY inside its critical section); it
\* becomes EDITING only when HUNGRY with both its boards free; and its
\* request returns only while its state is EDITING.
C28_EditorLifeCycle ==
    [][\A e \in Editors :
          /\ vs_state'[e] # vs_state[e] =>
                \/ /\ vs_state[e] = "THINKING"
                   /\ Requests(e)
                   /\ vs_state'[e] = "HUNGRY"
                \/ /\ vs_state[e] = "THINKING"
                   /\ Requests(e)
                   /\ vs_state'[e] = "EDITING"
                   /\ board_in_use[e] = 0
                   /\ board_in_use[(e + 1) % NUM_BOARDS] = 0
                \/ /\ vs_state[e] = "HUNGRY"
                   /\ vs_state'[e] = "EDITING"
                   /\ \E n \in {LeftOf(e), RightOf(e)} : Releases(n)
                   /\ \A b \in {e, (e + 1) % NUM_BOARDS} :
                         \/ board_in_use[b] = 0
                         \/ \E n \in {LeftOf(e), RightOf(e)} :
                               Releases(n) /\ b \in {n, (n + 1) % NUM_BOARDS}
                \/ /\ vs_state[e] = "EDITING"
                   /\ Releases(e)
                   /\ vs_state'[e] = "THINKING"
          /\ (vs_pc[e] # "edit" /\ vs_pc'[e] = "edit") =>
                /\ vs_pc[e] \in {"req_cs", "req_recheck"}
                /\ vs_state'[e] = "EDITING"]_vars

\* An editor is back from its request after having waited for it, its two
\* neighbours not EDITING.
C28_Witness ==
    \E e \in Editors :
        /\ vs_pc[e] = "edit"
        /\ vs_state[e] = "EDITING"
        /\ edits[e] = 0
        /\ edits[LeftOf(e)] = NUM_EDITS
        /\ edits[RightOf(e)] = NUM_EDITS

----------------------------------------------------------------------------
(***************************************************************************)
(* Video studio on mutex and condition variables: a release out of turn.   *)
(***************************************************************************)
\* C24: in the monitor and the mutex video studio a release by an editor
\* that is not EDITING is rejected: it changes no board flag and no editor
\* state, and so never frees a board a neighbour holds.
C24_StrayReleaseRejected ==
    [][\A e \in Editors :
          (vs_pc[e] = "stray_cs" /\ vs_pc'[e] # "stray_cs") =>
              /\ vs_state' = vs_state
              /\ board_in_use' = board_in_use]_vars

----------------------------------------------------------------------------
(***************************************************************************)
(* Monitor catalog: end_write and end_read out of turn.                    *)
(***************************************************************************)
\* C25: in the monitor catalog end_write called when num_writers is 0 and
\* end_read called when num_readers is 0 are rejected and leave num_writers,
\* num_readers and writer_waiting as they are, so neither counter is ever
\* negative.
C25_StrayEndRejected ==
    [][/\ \A t \in RWThreads :
            (rw_pc[t] \in {"stray_ew", "stray_er"} /\ rw_pc'[t] # rw_pc[t]) =>
                <<num_writers, num_readers, writer_waiting>>' =
                    <<num_writers, num_readers, writer_waiting>>
       /\ num_writers' >= 0
       /\ num_readers' >= 0]_vars

----------------------------------------------------------------------------
(***************************************************************************)
(* Monitor catalog: progress and the count of waiting writers.             *)
(***************************************************************************)
\* C29: in the monitor catalog, with every thread scheduled with weak
\* fairness, all readers and writers terminate, so every call of start_read
\* and start_write has returned; no thread stays on can_read or can_write.
C29_CatalogTerminates ==
    <>(/\ \A t \in RWThreads : rw_pc[t] = "done"
       /\ can_read = {}
       /\ can_write = {})

\* Readers wait on can_read behind a writer that waits on can_write for the
\* active readers to leave.
C29_Witness ==
    /\ rw_impl = "monitor"
    /\ Cardinality(can_read) >= 2
    /\ can_write # {}
    /\ num_readers > 0
    /\ num_writers = 0

\* C30: in the monitor catalog writer_waiting is the number of writers that
\* have entered start_write (incremented it) and are not yet the active
\* writer, hence between 0 and NUM_WRITERS; a writer leaves start_write only
\* with num_readers = 0 and num_writers = 0, and in that critical section it
\* takes itself off writer_waiting and makes num_writers 1.
C30_WaitingWritersCounted ==
    [][rw_impl = "monitor" =>
          /\ writer_waiting' = Cardinality({w \in Writers : WriterWaits(w)'})
          /\ writer_waiting' \in 0..NUM_WRITERS
          /\ \A w \in Writers :
                (~InUpdate(w) /\ InUpdate(w)') =>
                    /\ num_readers = 0
                    /\ num_writers = 0
                    /\ num_writers' = 1
                    /\ writer_waiting' =
                          writer_waiting - (IF WriterWaits(w) THEN 1 ELSE 0)]_vars

\* Both writers wait for the active readers.
C30_Witness ==
    /\ rw_impl = "monitor"
    /\ writer_waiting = NUM_WRITERS
    /\ num_readers > 0
    /\ \A w \in Writers : rw_pc[w] = "sw_wait"

----------------------------------------------------------------------------
(***************************************************************************)
(* Print queues: a failing initialisation.                                 *)
(***************************************************************************)
\* C26: when the initialisation of the k-th primitive fails in
\* init_print_queue (mutex version) or init_semaphores (semaphore version),
\* the function returns a non-success code, every primitive initialised
\* before is destroyed again, and main returns failure without creating a
\* producer or consumer; without a failure the function returns success with
\* every primitive initialised.
C26_FailedInitUndone ==
    init_pc \in {"returned", "over"} =>
        IF init_fail # 0
        THEN /\ init_ret # 0
             /\ initialised = {}
             /\ created = 0
             /\ main_pc \in {"init", "failed", "exited"}
             /\ init_pc = "over" => main_pc # "init"
        ELSE /\ init_ret = 0
             /\ initialised = {InitPrimitives[k] : k \in 1..Len(InitPrimitives)}

\* The initialisation of the last semaphore failed, after three were
\* initialised, and main has returned failure.
C26_Witness ==
    /\ pq_impl = "sem"
    /\ init_fail = 4
    /\ init_k = 4
    /\ init_pc = "over"
    /\ main_pc = "exited"


----------------------------------------------------------------------------
(***************************************************************************)
(* C35.  video_studio_sem.c: an editor is past get_boards from the return  *)
(* of its second board sem_wait until its put_boards has run.              *)
(***************************************************************************)
SemPastGetBoards(e) == vss_pc[e] \in {"edit", "put_cs"}

SemBoardsOf(e) == {e, (e + 1) % NUM_BOARDS}

\* C35: in the semaphore video studio every board semaphore has the value 0
\* or 1 in every reachable state, and two distinct editors that are both
\* past get_boards and not yet through put_boards never share a board.
C35_SemBoardsExclusive ==
    /\ \A b \in Boards : boards[b] \in {0, 1}
    /\ \A e1, e2 \in Editors :
          (e1 # e2 /\ SemPastGetBoards(e1) /\ SemPastGetBoards(e2))
              => SemBoardsOf(e1) \cap SemBoardsOf(e2) = {}

\* Two editors use their boards at once, and a third waits for a board one
\* of them holds.
C35_Witness ==
    \E e1, e2, e3 \in Editors :
        /\ e1 # e2
        /\ vss_pc[e1] = "edit" /\ vss_pc[e2] = "edit"
        /\ vss_pc[e3] \in {"wait_left", "wait_right"}
        /\ Cardinality({b \in Boards : boards[b] = 0}) >= 4

----------------------------------------------------------------------------
(***************************************************************************)
(* C36, C37.  video_studio_monitor.c and video_studio_mutex.c: the boards  *)
(* against the editors' states.                                            *)
(***************************************************************************)
\* C36: in the monitor and the mutex video studio, in every reachable state
\* in which the studio mutex is free, every HUNGRY editor has at least one of
\* its two boards marked in use: no editor waits with both boards free.
C36_NoMissedGrant ==
    vs_mutex = NoEditor =>
        \A e \in Editors :
            vs_state[e] = "HUNGRY" =>
                \/ board_in_use[e] = 1
                \/ board_in_use[(e + 1) % NUM_BOARDS] = 1

\* An editor waits HUNGRY with one board in use and the other free, the mutex
\* free.
C36_Witness ==
    /\ vs_mutex = NoEditor
    /\ \E e \in Editors :
        /\ vs_state[e] = "HUNGRY"
        /\ vs_pc[e] = "req_wait"
        /\ board_in_use[e] + board_in_use[(e + 1) % NUM_BOARDS] = 1

\* C37: in the monitor and the mutex video studio, with every editor
\* alternating request and release, board b is marked in use if and only if
\* exactly one of the editors b and (b - 1) mod NUM_EDITORS is EDITING; no
\* board stays marked in use with neither of them EDITING.
C37_BoardMarksMatchEditing ==
    \A b \in Boards :
        board_in_use[b] = 1 <=>
            Cardinality({e \in {b, LeftOf(b)} : vs_state[e] = "EDITING"}) = 1

\* An editor has released after its edit while another one is EDITING: the
\* boards of the first are free again, those of the second marked.
C37_Witness ==
    \E e1, e2 \in Editors :
        /\ edits[e1] > 0
        /\ vs_state[e1] = "THINKING"
        /\ vs_state[e2] = "EDITING"
        /\ board_in_use[e2] = 1
        /\ \E b \in Boards : board_in_use[b] = 0

----------------------------------------------------------------------------
(***************************************************************************)
(* C38.  ecommerce_mutex.c: who unlocks write_mutex.                       *)
(***************************************************************************)
\* The reader that leaves as the last one, and so calls
\* pthread_mutex_unlock(&catalog.write_mutex), in this step.
LastReaderLeaves(r) ==
    /\ rw_impl = "mutex"
    /\ rw_pc[r] = "ex_cs"
    /\ rw_pc'[r] = "r_loop"
    /\ num_readers' = 0

\* C38: in the mutex catalog write_mutex is always unlocked by the thread
\* that locked it: the reader that unlocks it as the last reader
\* (num_readers becomes 0) is the reader that locked it as the first one.
C38_UnlockedByLocker ==
    [][\A r \in Readers : LastReaderLeaves(r) => write_mutex = r]_vars

----------------------------------------------------------------------------
(***************************************************************************)
(* C39.  The products under the writers' updates.                          *)
(***************************************************************************)
\* A writer's update is made in the step that takes the writer out of
\* "writing".
UpdateMade == \E w \in Writers : rw_pc[w] = "writing" /\ rw_pc'[w] # "writing"

\* C39: in every catalog implementation, after any sequence of writer
\* updates every product's stock is >= 0 and every product's id equals its
\* index + 1; a writer update touches the price and the stock of one product
\* and leaves every other product, and every id, unchanged.
C39_ProductsWellFormed ==
    [][/\ \A i \in ProductIndexes :
            /\ products'[i].stock >= 0
            /\ products'[i].id = i + 1
       /\ UpdateMade =>
            \E i \in ProductIndexes :
                \A j \in ProductIndexes \ {i} : products'[j] = products[j]
       /\ ~UpdateMade => products' = products]_vars

\* Both writers are through, one update met a stock below three and took
\* three off, the other changed the other product's price and stock.
C39_Witness ==
    /\ \A w \in Writers : rw_pc[w] = "done"
    /\ products[0].stock = 0
    /\ products[0].price \notin InitialPrices
    /\ products[1].stock \notin InitialStocks
    /\ products[1].price \notin InitialPrices

----------------------------------------------------------------------------
(***************************************************************************)
(* C31.  ecommerce_mutex.c and ecommerce_sem.c: a writer under sustained   *)
(* read load.                                                              *)
(***************************************************************************)
\* Writer w has called pthread_mutex_lock / sem_wait on write_mutex while the
\* readers hold it.
WaitsBehindReaders(w) == rw_pc[w] = "w_lock" /\ write_mutex \in Readers

\* A step from a state in which the readers hold write_mutex: they still hold
\* it, a reader is still counted, and a writer that waited still waits.
ReadersKeepWriteMutex ==
    write_mutex \in Readers =>
        /\ write_mutex' \in Readers
        /\ num_readers' > 0
        /\ \A w \in Writers :
              WaitsBehindReaders(w) => rw_pc'[w] = "w_lock"

\* C31: in the mutex and the semaphore catalog, with the readers repeating
\* without bound and their query sections kept overlapping, the execution is
\* weakly fair and yet num_readers never returns to 0 once the readers hold
\* write_mutex, a writer waiting for write_mutex then never enters its update
\* section, and readers keep entering and leaving for ever.
C31_WriterStarves ==
    /\ [][ReadersKeepWriteMutex]_vars
    /\ []<>(\E r \in Readers : rw_pc[r] = "ex_cs")

\* A writer waits for write_mutex while one reader leaves and two others are
\* inside their query sections.
C31_Witness ==
    /\ \E w \in Writers : WaitsBehindReaders(w)
    /\ \E r \in Readers : rw_pc[r] = "ex_cs"
    /\ num_readers >= 3

----------------------------------------------------------------------------
(***************************************************************************)
(* C32.  print_system_monitor.c: the harness runs to its end.              *)
(***************************************************************************)
\* Every document the producers make: producer p makes DocId(p, 0) up to
\* DocId(p, MAX_DOCUMENTS - 1).
AllDocuments == {DocId(p, n) : p \in Producers, n \in 0..(MAX_DOCUMENTS - 1)}

\* main is through its joins: every producer and consumer has returned.
HarnessOver == main_pc = "finished"

\* C32: in the monitor print queue harness with should_stop never set (no
\* pthread_create fails), under weak fairness every producer and consumer
\* terminates; at termination exactly the NUM_PRODUCERS * MAX_DOCUMENTS
\* documents have been consumed, none of them twice, and count = 0 and
\* active_producers = 0.
C32_MonitorHarnessCompletes ==
    /\ [][\A c \in Consumers : Removed(c) => doc'[c] \notin returned]_vars
    /\ [](HarnessOver =>
            /\ \A t \in PQThreads : pq_pc[t] = "done"
            /\ returned = AllDocuments
            /\ Cardinality(returned) = NUM_PRODUCERS * MAX_DOCUMENTS
            /\ pending = <<>>
            /\ count = 0
            /\ active_producers = 0)
    /\ <>(should_stop = 1 \/ HarnessOver)

\* The harness is over with should_stop never set and every document printed.
C32_Witness ==
    /\ pq_impl = "monitor"
    /\ HarnessOver
    /\ should_stop = 0
    /\ returned = AllDocuments

----------------------------------------------------------------------------
(***************************************************************************)
(* C33.  print_system_mutex.c: the harness runs to its end.                *)
(***************************************************************************)
\* C33: in the mutex print queue harness, under weak fairness and whatever
\* the order in which the producers and consumers first run, every thread
\* terminates (main's joins return) with all NUM_PRODUCERS * MAX_DOCUMENTS
\* documents printed, unless a pthread_create failed; no producer stays
\* blocked on not_full for ever.
C33_MutexHarnessCompletes ==
    <>(should_stop = 1 \/ (HarnessOver /\ returned = AllDocuments))

----------------------------------------------------------------------------
(***************************************************************************)
(* C34.  print_system_sem.c: the counting semaphores and the ring while    *)
(* the producers run.                                                      *)
(***************************************************************************)
\* The threads between the wait on their counting semaphore and their post
\* of the other one: a producer from sem_wait(&empty) to sem_post(&full), a
\* consumer from sem_wait(&full) to sem_post(&empty).
SemInFlight ==
    {t \in PQThreads : pq_pc[t] \in {"ins_lock", "ins_cs", "post_full",
                                     "rm_lock", "rm_cs", "post_empty"}}

\* The documents inserted and not yet consumed.
Unconsumed == {pending[i] : i \in 1..Len(pending)}

\* C34: in the semaphore print queue, before main's shutdown posts,
\* value(empty) + value(full) + the number of threads between their counting
\* semaphore's wait and post is BUFFER_SIZE, between 0 and BUFFER_SIZE
\* documents are inserted and not consumed, a producer about to store finds
\* in a slot in that holds no unconsumed document, and at most one thread at
\* a time is where in and out are updated.
C34_SemaphoresCountSlots ==
    (pq_impl = "sem" /\ posted = 0) =>
        /\ empty + full + Cardinality(SemInFlight) = BUFFER_SIZE
        /\ Len(pending) \in 0..BUFFER_SIZE
        /\ Cardinality(Unconsumed) = Len(pending)
        /\ \A p \in Producers : pq_pc[p] = "ins_cs" => buffer[in] \notin Unconsumed
        /\ Cardinality({t \in PQThreads : pq_pc[t] \in {"ins_cs", "rm_cs"}}) <= 1

\* The ring is full, a producer waits for a slot, a consumer is taking a
\* document and a producer's insert has wrapped around.
C34_Witness ==
    /\ pq_impl = "sem" /\ posted = 0
    /\ Len(pending) = BUFFER_SIZE
    /\ empty = 0
    /\ \E p \in Producers : pq_pc[p] = "wait_empty"
    /\ \E c \in Consumers : pq_pc[c] = "rm_cs"
    /\ Cardinality(inserted) > BUFFER_SIZE

============================================================================
